---- MODULE Spec2Model ----
(***************************************************************************)
(* Event-driven workflow kernel: processes and the hybrid scheduler, the   *)
(* notify syscall, the routing table, the guide pass run by the timer      *)
(* interrupt, the Execution deck with the completion interrupt, and the    *)
(* workflow engine.                                                        *)
(*                                                                         *)
(* Every C function is an operator from a kernel state record (the record  *)
(* K of all variables) to the next state record; an action applies one     *)
(* whole handler.  Interrupt handlers and the syscall handler run to       *)
(* completion on the single CPU, so each is one atomic step.               *)
(***************************************************************************)
EXTENDS Integers, Sequences, FiniteSets, TLC

VARIABLES
    process_table,            \* process.c: process_table[], by slot
    next_pid,                 \* process.c: next_pid
    current_process,          \* process.c: current_process (0 is NULL)
    ready_queue,              \* scheduler.c: ready_queue[] from head to tail
    time_slice_remaining,     \* scheduler.c: time_slice_remaining
    idle,                     \* slot whose notify(Wait) sits in the yield idle loop, 0 if none
    event_ring,               \* per slot: EventRing contents, head first
    result_ring,              \* per slot: ResultRing contents, head first
    routing_table,            \* routing_table.c: buckets, each list head first
    global_event_id_counter,  \* idt.c: global_event_id_counter
    registry,                 \* workflow.c: registry, by workflow id
    inserted,                 \* history: the events given to routing_table_insert, in order
    owed,                     \* history, per slot: an event of this process completed since its last Wait
    in_wait,                  \* history, per slot: blocked inside notify(Wait)
    wait_ret,                 \* history: the notify(Wait) return made by the last step, if any
    deck_failed,              \* history: some deck step has reported an error
    total_ticks,              \* scheduler.c: scheduler_stats.total_ticks
    frame,                    \* history: rdi, rsi and the rax written by the last notify call
    trace,                    \* history: the calls the last handler made, in order
    ring,                     \* workflow_rings.h: one ring with head, tail and slots
    timers,                   \* hardware_deck.c: timers[MAX_TIMERS]
    next_timer_id,            \* hardware_deck.c: next_timer_id
    tsc                       \* the time stamp counter rdtsc() reads

vars == << process_table, next_pid, current_process, ready_queue,
           time_slice_remaining, idle, event_ring, result_ring, routing_table,
           global_event_id_counter, registry, inserted, owed, in_wait, wait_ret,
           deck_failed, total_ticks, frame, trace, ring,
           timers, next_timer_id, tsc >>

(***************************************************************************)
(* Bounds of the model                                                     *)
(***************************************************************************)
MaxProc == 2
MaxSpawn == 2
MaxPush == 2
MaxPushWf == 1
MaxActivations == 1
MaxTicks == 4
MaxTicksSys == 1
MaxPushSys == 2

(***************************************************************************)
(* Program constants                                                       *)
(***************************************************************************)
PROCESS_MAX_COUNT == 64
TIME_SLICE_TICKS == 10
WATCHDOG_PERIOD_TICKS == 100
WATCHDOG_TIMEOUT_TICKS == 1000
ROUTING_TABLE_SIZE == 64
EVENT_RING_SIZE == 256
RESULT_RING_SIZE == 256
MAX_PUSH_ATTEMPTS == 10000
MAX_EVENT_PAYLOAD_SIZE == 512
MAX_EVENT_TYPE == 255
MAX_WORKFLOWS == 16

PROCESS_STATE_READY == 0
PROCESS_STATE_RUNNING == 1
PROCESS_STATE_WAITING == 2
PROCESS_STATE_ZOMBIE == 3

NOTIFY_SUBMIT == 1
NOTIFY_WAIT == 2
NOTIFY_POLL == 4
NOTIFY_YIELD == 8
NOTIFY_EXIT == 16
VALID_FLAGS_MASK == 31
SYSCALL_VECTOR == 128

WORKFLOW_STATE_REGISTERED == 0
WORKFLOW_STATE_READY == 1
WORKFLOW_STATE_RUNNING == 2
WORKFLOW_STATE_COMPLETED == 4
WORKFLOW_STATE_ERROR == 5

ERROR_POLICY_ABORT == 0
ERROR_POLICY_CONTINUE == 1
ERROR_POLICY_RETRY == 2
ERROR_POLICY_SKIP == 3

ERROR_TIMEOUT == 4
ERROR_RESOURCE_BUSY == 6
ERROR_STORAGE_FILE_NOT_FOUND == 513
ERROR_STORAGE_DISK_FULL == 515
ERROR_HW_DEVICE_BUSY == 772
ERROR_NET_TIMEOUT == 1027
ERROR_NET_HOST_UNREACHABLE == 1028
ERROR_WORKFLOW_DEPENDENCY_FAILED == 1283

Slots == 1..MaxProc
NULL == 0

\* Steps of a route, and the classifier of a deck result.
MAX_ROUTING_STEPS == 8
RESULT_TYPE_NONE == 0
RESULT_TYPE_VALUE == 1
RESULT_TYPE_STATIC == 2
RESULT_TYPE_KMALLOC == 3
RESULT_TYPE_MEMORY_MAPPED == 4
ResultTypes == RESULT_TYPE_NONE..RESULT_TYPE_MEMORY_MAPPED

(***************************************************************************)
(* The kernel state as one record                                          *)
(***************************************************************************)
K == [ process_table |-> process_table, next_pid |-> next_pid,
       current_process |-> current_process, ready_queue |-> ready_queue,
       time_slice_remaining |-> time_slice_remaining, idle |-> idle,
       event_ring |-> event_ring, result_ring |-> result_ring,
       routing_table |-> routing_table,
       global_event_id_counter |-> global_event_id_counter,
       registry |-> registry, inserted |-> inserted, owed |-> owed,
       in_wait |-> in_wait, wait_ret |-> wait_ret,
       deck_failed |-> deck_failed, total_ticks |-> total_ticks,
       frame |-> frame, trace |-> trace ]

\* The state of the Hardware deck; only that deck's run touches it.
hardware_vars == << timers, next_timer_id, tsc >>

CommitKernel(s) ==
    /\ process_table' = s.process_table
    /\ next_pid' = s.next_pid
    /\ current_process' = s.current_process
    /\ ready_queue' = s.ready_queue
    /\ time_slice_remaining' = s.time_slice_remaining
    /\ idle' = s.idle
    /\ event_ring' = s.event_ring
    /\ result_ring' = s.result_ring
    /\ routing_table' = s.routing_table
    /\ global_event_id_counter' = s.global_event_id_counter
    /\ registry' = s.registry
    /\ inserted' = s.inserted
    /\ owed' = s.owed
    /\ in_wait' = s.in_wait
    /\ wait_ret' = s.wait_ret
    /\ deck_failed' = s.deck_failed
    /\ total_ticks' = s.total_ticks
    /\ frame' = s.frame
    /\ trace' = s.trace

Commit(s) ==
    /\ CommitKernel(s)
    /\ UNCHANGED ring
    /\ UNCHANGED hardware_vars

NoRet == [pid |-> 0, wf |-> 0, immediate |-> FALSE]

\* The interrupt frame of a step that is not a notify call.
NoFrame == [int_no |-> 0, rdi |-> 0, rsi |-> 0, rax |-> 0]

\* A zeroed process_t (process_init, and process_destroy's memset).
ZeroProcess == [ pid |-> 0, state |-> 0, completion_ready |-> 0,
                 current_workflow_id |-> 0, has_rings |-> FALSE,
                 last_syscall_tick |-> 0 ]

\* One call recorded in the trace of a handler: the function, and up to two
\* of its arguments.
Call(op, a, b) == [op |-> op, a |-> a, b |-> b]

Traced(s, op, a, b) == [s EXCEPT !.trace = Append(@, Call(op, a, b))]

\* kfree(ptr): the heap itself is not modelled, the call is recorded.
kfree(s, ptr) == Traced(s, "kfree", ptr, 0)

\* if (result) kfree(result);
FreeResult(s, result) == IF result # NULL THEN kfree(s, result) ELSE s

SetProc(s, p, field, v) ==
    [s EXCEPT !.process_table[p] = [@ EXCEPT ![field] = v]]


(***************************************************************************)
(* Ring buffers (workflow_rings.h)                                         *)
(***************************************************************************)
\* A ring as the C structure has it: head, tail and the slot array.  kind
\* tells the EventRing from the ResultRing.  last is the history of the last
\* call: the function, what it returned (pop: 1 for a record, 0 for NULL) and
\* the record pushed, or read through the returned pointer at the time of
\* the return.  held is the slot whose address the last successful pop
\* returned, with the record it held then, while the consumer still reads
\* it; idx is -1 when the consumer holds no pointer.
NoCall == [op |-> "none", ret |-> 0, value |-> 0]

NotHeld == [idx |-> -1, value |-> 0]

NewRing(kind) ==
    [ kind |-> kind, head |-> 0, tail |-> 0,
      slots |-> [i \in 0..(EVENT_RING_SIZE - 1) |-> 0],
      last |-> NoCall, held |-> NotHeld ]

RingSize(r) == IF r.kind = "event" THEN EVENT_RING_SIZE ELSE RESULT_RING_SIZE

\* A push whose fullness test is off by one: it accepts a record when the
\* ring already holds as many as it has slots.
wf_ring_push_OffByOne(r, record) ==
    LET tail == r.tail
        head == r.head
    IN IF tail - head > RingSize(r)
       THEN [r EXCEPT !.last = [op |-> "push", ret |-> 0, value |-> record]]
       ELSE [r EXCEPT !.slots[tail % RingSize(r)] = record,
                      !.tail = tail + 1,
                      !.last = [op |-> "push", ret |-> 1, value |-> record]]

\* wf_event_ring_push and wf_result_ring_push: the same code but for the
\* record type and the size constant.
wf_ring_push(r, record) ==
    LET tail == r.tail
        head == r.head
    IN IF tail - head >= RingSize(r)
       THEN [r EXCEPT !.last = [op |-> "push", ret |-> 0, value |-> record]]
       ELSE [r EXCEPT !.slots[tail % RingSize(r)] = record,
                      !.tail = tail + 1,
                      !.last = [op |-> "push", ret |-> 1, value |-> record]]

\* wf_event_ring_pop and wf_result_ring_pop: head is advanced before the
\* function returns the address of the slot.
wf_ring_pop(r) ==
    LET head == r.head
        tail == r.tail
        idx == head % RingSize(r)
    IN IF head = tail
       THEN [r EXCEPT !.last = [op |-> "pop", ret |-> 0, value |-> 0]]
       ELSE [r EXCEPT !.head = head + 1,
                      !.held = [idx |-> idx, value |-> r.slots[idx]],
                      !.last = [op |-> "pop", ret |-> 1, value |-> r.slots[idx]]]

(***************************************************************************)
(* Processes (process.c)                                                   *)
(***************************************************************************)
\* The slot search of process_create: the first slot whose state field is 0.
FreeSlot(s) ==
    IF \E i \in Slots : s.process_table[i].state = 0
    THEN CHOOSE i \in Slots : /\ s.process_table[i].state = 0
                              /\ \A j \in Slots : s.process_table[j].state = 0 => i <= j
    ELSE NULL

\* State after process_create when a slot was found: fresh pid, state READY,
\* freshly allocated and zeroed rings.  completion_ready and
\* last_syscall_tick are not written.
process_create(s) ==
    LET proc == FreeSlot(s) IN
    IF proc = NULL THEN s
    ELSE [s EXCEPT !.process_table[proc] =
                       [@ EXCEPT !.pid = s.next_pid,
                                 !.state = PROCESS_STATE_READY,
                                 !.current_workflow_id = 0,
                                 !.has_rings = TRUE],
                   !.next_pid = s.next_pid + 1,
                   !.event_ring[proc] = << >>,
                   !.result_ring[proc] = << >>,
                   !.owed[proc] = FALSE,
                   !.in_wait[proc] = FALSE]

process_destroy(s, proc) ==
    IF proc = NULL THEN s
    ELSE IF s.process_table[proc].state # PROCESS_STATE_ZOMBIE THEN s
    ELSE [s EXCEPT !.process_table[proc] = ZeroProcess,
                   !.event_ring[proc] = << >>,
                   !.result_ring[proc] = << >>,
                   !.owed[proc] = FALSE,
                   !.in_wait[proc] = FALSE]

(***************************************************************************)
(* Scheduler (scheduler.c)                                                 *)
(***************************************************************************)
scheduler_add_process(s, proc) ==
    IF proc = NULL THEN s
    ELSE IF Len(s.ready_queue) >= PROCESS_MAX_COUNT THEN s
    ELSE SetProc([s EXCEPT !.ready_queue = Append(@, proc)],
                 proc, "state", PROCESS_STATE_READY)

\* scheduler_pick_next: the process returned, and the queue it leaves.
scheduler_pick_next(s) ==
    IF Len(s.ready_queue) = 0 THEN [next |-> NULL, s |-> s]
    ELSE [next |-> Head(s.ready_queue),
          s |-> [s EXCEPT !.ready_queue = Tail(@)]]

\* scheduler_restore_context loads the saved user context into the interrupt
\* frame unless the process is a zombie or has no address space.  A process
\* whose context is loaded while it is blocked in notify(Wait) resumes after
\* its syscall: that is the return of its Wait.
scheduler_restore_context(s, proc) ==
    IF proc = NULL THEN s
    ELSE IF s.process_table[proc].state = PROCESS_STATE_ZOMBIE THEN s
    ELSE IF ~s.process_table[proc].has_rings THEN s
    ELSE IF s.in_wait[proc]
         THEN [s EXCEPT !.in_wait[proc] = FALSE,
                        !.owed[proc] = FALSE,
                        !.wait_ret = [pid |-> s.process_table[proc].pid,
                                      wf |-> s.process_table[proc].current_workflow_id,
                                      immediate |-> FALSE]]
         ELSE s

\* The sequence repeated at every switch: restore, mark RUNNING, make
\* current, start a fresh time slice.
SwitchTo(s, next) ==
    LET s1 == scheduler_restore_context(s, next)
        s2 == SetProc(s1, next, "state", PROCESS_STATE_RUNNING)
    IN [s2 EXCEPT !.current_process = next,
                  !.time_slice_remaining = TIME_SLICE_TICKS,
                  !.idle = NULL]

\* What scheduler_yield_cooperative and an expired time slice in
\* scheduler_tick both do with the current process.  blocker is the slot to
\* record when a Waiting process finds nothing to run and the kernel enters
\* the hlt loop.
SwitchFromCurrent(s) ==
    LET current == s.current_process
        st == s.process_table[current].state
    IN
    IF st = PROCESS_STATE_ZOMBIE THEN
        LET s1 == [process_destroy(s, current) EXCEPT !.current_process = NULL]
            pk == scheduler_pick_next(s1)
        IN IF pk.next # NULL THEN SwitchTo(pk.s, pk.next) ELSE s1
    ELSE IF st = PROCESS_STATE_WAITING THEN
        LET pk == scheduler_pick_next(s)
        IN IF pk.next # NULL THEN SwitchTo(pk.s, pk.next)
           ELSE [s EXCEPT !.current_process = NULL, !.idle = current]
    ELSE
        LET s1 == IF st = PROCESS_STATE_RUNNING
                  THEN scheduler_add_process(s, current) ELSE s
            pk == scheduler_pick_next(s1)
        IN IF pk.next # NULL /\ pk.next # current
           THEN SwitchTo(pk.s, pk.next)
           ELSE [scheduler_restore_context(pk.s, current)
                     EXCEPT !.time_slice_remaining = TIME_SLICE_TICKS]

scheduler_yield_cooperative(s) ==
    IF s.current_process = NULL THEN s ELSE SwitchFromCurrent(s)

\* The watchdog pass of scheduler_tick: every process that is neither
\* Zombie nor Waiting, has made a syscall (last_syscall_tick is not 0) and
\* made the last one more than 1000 ticks ago is marked Zombie.
\* A test that leaves out the exemption of processes without a syscall.
watchdog_overdue_NoSyscallTest(s, i) ==
    /\ s.process_table[i].state # PROCESS_STATE_ZOMBIE
    /\ s.process_table[i].state # PROCESS_STATE_WAITING
    /\ s.total_ticks - s.process_table[i].last_syscall_tick > WATCHDOG_TIMEOUT_TICKS

\* The watchdog's test of one process.
watchdog_overdue(s, i) ==
    /\ s.process_table[i].state # PROCESS_STATE_ZOMBIE
    /\ s.process_table[i].state # PROCESS_STATE_WAITING
    /\ s.process_table[i].last_syscall_tick # 0
    /\ s.total_ticks - s.process_table[i].last_syscall_tick > WATCHDOG_TIMEOUT_TICKS

\* The trace records each marking as "watchdog_kill" with the slot.
RECURSIVE watchdog_from(_, _)
watchdog_from(s, i) ==
    IF i > MaxProc THEN s
    ELSE IF watchdog_overdue(s, i)
         THEN watchdog_from(
                  Traced(SetProc(s, i, "state", PROCESS_STATE_ZOMBIE),
                         "watchdog_kill", i, 0),
                  i + 1)
         ELSE watchdog_from(s, i + 1)

watchdog(s) == watchdog_from(s, 1)

scheduler_tick(s) ==
    LET t1 == [s EXCEPT !.total_ticks = @ + 1]
        sw == IF t1.total_ticks % WATCHDOG_PERIOD_TICKS = 0 THEN watchdog(t1) ELSE t1
    IN
    IF sw.current_process = NULL THEN
        IF Len(sw.ready_queue) = 0 THEN sw
        ELSE LET pk == scheduler_pick_next(sw) IN SwitchTo(pk.s, pk.next)
    ELSE
        LET s1 == [sw EXCEPT !.time_slice_remaining = @ - 1] IN
        IF s1.time_slice_remaining <= 0 THEN SwitchFromCurrent(s1) ELSE s1


(***************************************************************************)
(* Routing table (routing_table.c)                                         *)
(***************************************************************************)
Buckets == 0..(ROUTING_TABLE_SIZE - 1)

routing_table_index(event_id) == event_id % ROUTING_TABLE_SIZE

\* routing_table_insert: the copy goes to the head of its bucket's list.
routing_table_insert(s, entry) ==
    [s EXCEPT !.routing_table[routing_table_index(entry.event_id)] = << entry >> \o @,
              !.inserted = Append(@, [id |-> entry.event_id, node |-> entry.node,
                                       deps_met |-> entry.deps_met])]

\* Position in a bucket list of the first entry with the id, 0 if none.
FirstWithId(list, event_id) ==
    IF \E i \in 1..Len(list) : list[i].event_id = event_id
    THEN CHOOSE i \in 1..Len(list) :
            /\ list[i].event_id = event_id
            /\ \A j \in 1..(i - 1) : list[j].event_id # event_id
    ELSE 0

RemoveAt(list, i) ==
    [j \in 1..(Len(list) - 1) |-> IF j < i THEN list[j] ELSE list[j + 1]]

\* routing_table_remove: unlinks the first entry of the bucket with the id.
routing_table_remove(s, event_id) ==
    LET index == routing_table_index(event_id)
        i == FirstWithId(s.routing_table[index], event_id)
    IN IF i = 0 THEN s
       ELSE [s EXCEPT !.routing_table[index] = RemoveAt(@, i)]

\* routing_table_add_event: the entry takes the id the RingEvent already
\* carries.  owner, node and deps_met are history fields: the pid on whose
\* behalf the event was submitted, the workflow node it was built from (-1
\* for an event popped from a user ring), and whether that node's
\* dependencies were met when it was submitted.  uid tells entries apart.
EVENT_DATA_SIZE == 224

\* The payload of a ring event as 8-byte words; an event built without one
\* has payload_size 0.
Payload(ring_event) ==
    IF "payload" \in DOMAIN ring_event THEN ring_event.payload ELSE << >>

\* memcpy of min(payload_size, EVENT_DATA_SIZE) bytes: the whole words copied.
CopiedData(ring_event) ==
    LET copy_size == IF ring_event.payload_size > EVENT_DATA_SIZE
                     THEN EVENT_DATA_SIZE ELSE ring_event.payload_size
        words == IF copy_size \div 8 < Len(Payload(ring_event))
                 THEN copy_size \div 8 ELSE Len(Payload(ring_event))
    IN SubSeq(Payload(ring_event), 1, words)

routing_table_add_event(s, ring_event, owner, node, deps_met) ==
    routing_table_insert(s,
        [ event_id |-> ring_event.id,
          prefixes |-> ring_event.route,
          current_index |-> 0,
          state |-> "PROCESSING",
          abort_flag |-> 0,
          error_code |-> 0,
          has_result |-> FALSE,
          deck_results |-> << >>,
          user_id |-> ring_event.workflow_id,
          type |-> ring_event.type,
          data |-> CopiedData(ring_event),
          owner |-> owner, node |-> node, deps_met |-> deps_met,
          uid |-> Len(s.inserted) + 1 ])

\* All entries of the table in scan order: bucket by bucket, head first.
RECURSIVE ScanFrom(_, _)
ScanFrom(table, b) ==
    IF b >= ROUTING_TABLE_SIZE THEN << >>
    ELSE table[b] \o ScanFrom(table, b + 1)

AllEntries(s) == ScanFrom(s.routing_table, 0)

\* prefixes[current_index], 0 past the end of the route.
CurrentPrefix(entry) ==
    IF entry.current_index + 1 <= Len(entry.prefixes)
    THEN entry.prefixes[entry.current_index + 1] ELSE 0

(***************************************************************************)
(* Workflow engine (workflow.c)                                            *)
(***************************************************************************)
workflow_get(s, workflow_id) ==
    IF workflow_id \in DOMAIN s.registry THEN workflow_id ELSE NULL

Nodes(w) == 0..(w.event_count - 1)

error_is_transient(error_code) ==
    error_code \in { ERROR_TIMEOUT, ERROR_RESOURCE_BUSY, ERROR_STORAGE_DISK_FULL,
                     ERROR_HW_DEVICE_BUSY, ERROR_NET_TIMEOUT,
                     ERROR_NET_HOST_UNREACHABLE }

workflow_dependencies_met(w, event_index) ==
    IF event_index >= w.event_count THEN FALSE
    ELSE \A i \in 1..Len(w.events[event_index].dependencies) :
            LET dep_idx == w.events[event_index].dependencies[i] IN
            /\ dep_idx < w.event_count
            /\ w.events[dep_idx].completed = 1
            /\ w.events[dep_idx].error = 0

workflow_is_complete(w) ==
    IF ~w.has_context THEN FALSE
    ELSE w.context.completed_events >= w.context.total_events

\* workflow_submit_event: builds a RingEvent with id 0 and hands it to
\* routing_table_add_event, which returns routing_table_insert's 1.  The
\* function takes any nonzero result for a failure and returns 0; were the
\* result 0 it would return the RingEvent's id, which is still 0.
workflow_submit_event(s, wid, event_index) ==
    LET w == s.registry[wid] IN
    IF event_index >= w.event_count THEN [s |-> s, event_id |-> 0]
    ELSE LET ring_event == [ id |-> 0, workflow_id |-> w.workflow_id,
                             type |-> w.events[event_index].type,
                             route |-> w.route, payload_size |-> 0 ]
             result == 1
             s1 == routing_table_add_event(s, ring_event, w.owner_pid,
                       event_index, workflow_dependencies_met(w, event_index))
         IN IF result # 0 THEN [s |-> s1, event_id |-> 0]
            ELSE [s |-> s1, event_id |-> ring_event.id]

SetNode(s, wid, i, field, v) ==
    [s EXCEPT !.registry[wid].events[i] = [@ EXCEPT ![field] = v]]

SetContext(s, wid, field, v) ==
    [s EXCEPT !.registry[wid].context = [@ EXCEPT ![field] = v]]

\* What both submission loops do with the id workflow_submit_event returned.
RecordSubmission(s, wid, i, event_id) ==
    IF event_id = 0
    THEN SetContext(SetNode(s, wid, i, "error", 1), wid, "error_count",
                    s.registry[wid].context.error_count + 1)
    ELSE SetContext(SetNode(s, wid, i, "event_id", event_id), wid, "running_events",
                    s.registry[wid].context.running_events + 1)

\* The node loop of workflow_process, from node i on.
RECURSIVE ProcessLoop(_, _, _)
ProcessLoop(s, wid, i) ==
    LET w == s.registry[wid] IN
    IF i >= w.event_count THEN s
    ELSE IF w.events[i].completed = 1 \/ w.events[i].error = 1
         THEN ProcessLoop(s, wid, i + 1)
    ELSE IF workflow_dependencies_met(w, i)
         THEN LET sub == workflow_submit_event(SetNode(s, wid, i, "ready", 1), wid, i)
              IN ProcessLoop(RecordSubmission(sub.s, wid, i, sub.event_id), wid, i + 1)
    ELSE ProcessLoop(s, wid, i + 1)

workflow_process(s, wid) ==
    LET w == s.registry[wid] IN
    IF ~w.has_context THEN s
    ELSE IF w.state # WORKFLOW_STATE_READY /\ w.state # WORKFLOW_STATE_RUNNING THEN s
    ELSE LET s1 == ProcessLoop([s EXCEPT !.registry[wid].state = WORKFLOW_STATE_RUNNING],
                               wid, 0)
         IN IF workflow_is_complete(s1.registry[wid])
            THEN [s1 EXCEPT !.registry[wid].state = WORKFLOW_STATE_COMPLETED]
            ELSE s1

\* workflow_activate's loop over the nodes, from node i on: the result a node
\* still holds is given to kfree.
RECURSIVE FreeNodeResults(_, _, _)
FreeNodeResults(s, w, i) ==
    IF i >= w.event_count THEN s
    ELSE FreeNodeResults(FreeResult(s, w.events[i].result), w, i + 1)

\* workflow_activate up to its call of workflow_process: fresh zeroed
\* context, node flags, ids and results cleared (retry_count and
\* last_error_code are left as they are), state READY.
ActivateReset(s, wid) ==
         LET w == s.registry[wid]
             w1 == [w EXCEPT
                      !.has_context = TRUE,
                      !.context = [ total_events |-> w.event_count,
                                    completed_events |-> 0,
                                    running_events |-> 0,
                                    error_count |-> 0,
                                    failed_event_index |-> 0 ],
                      !.events = [i \in Nodes(w) |->
                                    [w.events[i] EXCEPT !.ready = 0, !.completed = 0,
                                                        !.error = 0, !.event_id = 0,
                                                        !.result = NULL]],
                      !.state = WORKFLOW_STATE_READY,
                      !.activation_count = w.activation_count + 1]
         IN [FreeNodeResults(s, w, 0) EXCEPT !.registry[wid] = w1]

workflow_activate(s, workflow_id) ==
    LET wid == workflow_get(s, workflow_id) IN
    IF wid = NULL THEN s
    ELSE IF s.registry[wid].state = WORKFLOW_STATE_RUNNING THEN s
    ELSE workflow_process(ActivateReset(s, wid), wid)

\* Index of the first node carrying the event id, -1 if none.
FindNode(w, event_id) ==
    IF \E i \in Nodes(w) : w.events[i].event_id = event_id
    THEN CHOOSE i \in Nodes(w) :
            /\ w.events[i].event_id = event_id
            /\ \A j \in Nodes(w) : w.events[j].event_id = event_id => i <= j
    ELSE -1

\* ERROR_POLICY_SKIP: every node not yet completed or errored that lists
\* event_index among its dependencies is marked errored.
SkipDependents(s, wid, event_index) ==
    LET w == s.registry[wid] IN
    [s EXCEPT !.registry[wid].events =
        [i \in Nodes(w) |->
            IF /\ w.events[i].completed = 0
               /\ w.events[i].error = 0
               /\ \E j \in 1..Len(w.events[i].dependencies) :
                      w.events[i].dependencies[j] = event_index
            THEN [w.events[i] EXCEPT !.error = 1,
                                     !.last_error_code = ERROR_WORKFLOW_DEPENDENCY_FAILED]
            ELSE w.events[i]]]

\* The loop of workflow_on_event_completed that submits newly ready nodes.
RECURSIVE ReadyLoop(_, _, _)
ReadyLoop(s, wid, i) ==
    LET w == s.registry[wid] IN
    IF i >= w.event_count THEN s
    ELSE IF w.events[i].completed = 1 \/ w.events[i].error = 1
         THEN ReadyLoop(s, wid, i + 1)
    ELSE IF w.events[i].ready = 1 THEN ReadyLoop(s, wid, i + 1)
    ELSE IF workflow_dependencies_met(w, i)
         THEN LET sub == workflow_submit_event(SetNode(s, wid, i, "ready", 1), wid, i)
              IN ReadyLoop(RecordSubmission(sub.s, wid, i, sub.event_id), wid, i + 1)
    ELSE ReadyLoop(s, wid, i + 1)

\* The end of workflow_on_event_completed: running_events--, the ready loop,
\* the completion test.  The uint32 counters are kept in their two's
\* complement reading, so that 0 - 1 is -1 and stands for 4294967295.
FinishCallback(s, wid) ==
    LET s1 == SetContext(s, wid, "running_events",
                  s.registry[wid].context.running_events - 1)
        s2 == ReadyLoop(s1, wid, 0)
    IN IF workflow_is_complete(s2.registry[wid])
       THEN [s2 EXCEPT !.registry[wid].state = WORKFLOW_STATE_COMPLETED]
       ELSE s2

workflow_on_event_completed(s, workflow_id, event_id, result, error_code) ==
    LET wid == workflow_get(s, workflow_id) IN
    IF wid = NULL THEN FreeResult(s, result)
    ELSE IF ~s.registry[wid].has_context THEN FreeResult(s, result)
    ELSE
    LET w == s.registry[wid]
        event_index == FindNode(w, event_id)
    IN
    IF event_index = -1 THEN FreeResult(s, result)
    ELSE IF error_code # 0 THEN
        LET node == w.events[event_index]
            s1 == FreeResult(SetNode(s, wid, event_index, "last_error_code", error_code),
                             result)
            should_retry == /\ w.retry_config.enabled = 1
                            /\ error_is_transient(error_code)
                            /\ node.retry_count < w.retry_config.max_retries
        IN
        IF should_retry THEN
            LET s2 == SetNode(SetNode(SetNode(s1, wid, event_index, "retry_count",
                                              (node.retry_count + 1) % 256),
                                      wid, event_index, "error", 0),
                              wid, event_index, "ready", 1)
                sub == workflow_submit_event(s2, wid, event_index)
            IN IF sub.event_id = 0
               THEN SetContext(RecordSubmission(sub.s, wid, event_index, 0),
                               wid, "failed_event_index", event_index)
               ELSE RecordSubmission(sub.s, wid, event_index, sub.event_id)
        ELSE
            LET s2 == SetContext(
                        SetContext(SetNode(s1, wid, event_index, "error", 1),
                                   wid, "error_count", w.context.error_count + 1),
                        wid, "failed_event_index", event_index)
            IN
            IF w.error_policy = ERROR_POLICY_ABORT
            THEN [s2 EXCEPT !.registry[wid].state = WORKFLOW_STATE_ERROR]
            ELSE IF w.error_policy = ERROR_POLICY_SKIP
            THEN FinishCallback(SkipDependents(s2, wid, event_index), wid)
            ELSE FinishCallback(s2, wid)
    ELSE
        LET s1 == SetNode(SetNode(s, wid, event_index, "completed", 1),
                          wid, event_index, "result", result)
            s2 == SetContext(s1, wid, "completed_events",
                             w.context.completed_events + 1)
        IN FinishCallback(s2, wid)

(***************************************************************************)
(* Completion interrupt INT 0x81 (idt.c)                                   *)
(***************************************************************************)
\* The wake loop of completion_irq_handler over the process table, from
\* slot i on: every slot in state WAITING is put on the ready queue.
RECURSIVE WakeLoop(_, _)
WakeLoop(s, i) ==
    IF i > MaxProc THEN s
    ELSE IF s.process_table[i].state = PROCESS_STATE_WAITING
         THEN WakeLoop(scheduler_add_process(s, i), i + 1)
         ELSE WakeLoop(s, i + 1)

completion_irq_handler(s) ==
    LET current == s.current_process
        s1 == IF current # NULL THEN SetProc(s, current, "completion_ready", 1) ELSE s
    IN WakeLoop(s1, 1)

(***************************************************************************)
(* Execution deck (execution_deck.c)                                       *)
(***************************************************************************)
\* History: the address of the result that step idx of entry uid stores
\* tells the result's type, NULL for no result.  Every deck result is a
\* separate allocation (or a separate value).
ResultAddr(uid, idx, type) ==
    IF type = RESULT_TYPE_NONE THEN NULL
    ELSE (uid * MAX_ROUTING_STEPS + idx) * (RESULT_TYPE_MEMORY_MAPPED + 1) + type

ResultTypeOf(ptr) == ptr % (RESULT_TYPE_MEMORY_MAPPED + 1)

\* The last non-null deck_results pointer of an entry, NULL if there is
\* none.
DeckResult(entry) ==
    LET set == { i \in 1..Len(entry.deck_results) : entry.deck_results[i] # NULL }
    IN IF set = {} THEN NULL
       ELSE entry.deck_results[CHOOSE i \in set : \A j \in set : j <= i]

\* History: the results an entry holds when it reaches the Execution deck,
\* recorded from step i on.
RECURSIVE HeldResults(_, _, _)
HeldResults(s, entry, i) ==
    IF i > Len(entry.deck_results) THEN s
    ELSE HeldResults(Traced(s, "deck_result", entry.uid, entry.deck_results[i]),
                     entry, i + 1)

\* The cleanup loop of process_completed_event from step i on: an empty slot
\* and the result handed to the workflow are skipped, a kmalloc result is
\* freed, a value, a static and a memory-mapped result are left alone.
RECURSIVE CleanupFrom(_, _, _, _)
CleanupFrom(s, entry, result_copy, i) ==
    IF i > Len(entry.deck_results) THEN s
    ELSE LET deck_result == entry.deck_results[i]
             result_type == ResultTypeOf(deck_result)
         IN IF deck_result = NULL \/ result_type = RESULT_TYPE_NONE
            THEN CleanupFrom(s, entry, result_copy, i + 1)
            ELSE IF deck_result = result_copy
            THEN CleanupFrom(s, entry, result_copy, i + 1)
            ELSE IF result_type = RESULT_TYPE_KMALLOC
            THEN CleanupFrom(kfree(s, deck_result), entry, result_copy, i + 1)
            ELSE CleanupFrom(s, entry, result_copy, i + 1)

\* A RingResult whose status is the abort flag instead of the error code's
\* value, and whose error_code is kept only for a clear flag.
collect_results_FlagAsStatus(entry) ==
    [ event_id |-> entry.event_id,
      workflow_id |-> entry.user_id,
      status |-> entry.abort_flag,
      error_code |-> IF entry.abort_flag = 1 THEN 0 ELSE entry.error_code,
      has_result |-> entry.has_result,
      result |-> DeckResult(entry),
      owner |-> entry.owner ]

collect_results(entry) ==
    [ event_id |-> entry.event_id,
      workflow_id |-> entry.user_id,
      status |-> IF entry.abort_flag = 1 THEN entry.error_code ELSE 0,
      error_code |-> entry.error_code,
      has_result |-> entry.has_result,
      result |-> DeckResult(entry),
      owner |-> entry.owner ]

\* History: the processes (by slot) whose pid is pid.
SlotsOfPid(s, pid) == { i \in Slots : pid # 0 /\ s.process_table[i].pid = pid }

\* Step 3 of process_completed_event: int $0x81.
SendCompletionIrq(s, entry) ==
    completion_irq_handler(Traced(s, "completion_irq_handler", entry.uid, 0))

\* Step 4: the workflow callback with the last non-null result.
NotifyWorkflow(s, entry) ==
    LET error_code == IF entry.abort_flag = 1 THEN entry.error_code ELSE 0
    IN workflow_on_event_completed(
           Traced(s, "workflow_on_event_completed", entry.uid, error_code),
           entry.user_id, entry.event_id, DeckResult(entry), error_code)

\* Step 5: the cleanup of the deck results.
CleanupResults(s, entry) ==
    CleanupFrom(Traced(s, "cleanup", entry.uid, 0), entry, DeckResult(entry), 1)

\* Step 6: the entry leaves the routing table.
RemoveEntry(s, entry) ==
    routing_table_remove(Traced(s, "routing_table_remove", entry.uid, entry.event_id),
                         entry.event_id)

\* The steps in an order the code does not take: the workflow callback
\* before the interrupt, and the removal before the cleanup.
DeliverAfterPush_CallbackFirst(s, entry) ==
    CleanupResults(RemoveEntry(SendCompletionIrq(NotifyWorkflow(s, entry), entry),
                               entry), entry)

\* Steps 3 to 6, after the RingResult has been pushed.
DeliverAfterPush(s, entry) ==
    RemoveEntry(CleanupResults(NotifyWorkflow(SendCompletionIrq(s, entry), entry),
                               entry), entry)

\* The loop gives up one failed attempt later than the code does.
PushSpin_OneMore(full, l) ==
    IF ~full THEN [l EXCEPT !.status = "pushed"]
    ELSE IF l.push_attempts + 1 > MAX_PUSH_ATTEMPTS
         THEN [push_attempts |-> l.push_attempts + 1, status |-> "gave_up"]
         ELSE [l EXCEPT !.push_attempts = @ + 1]

\* One turn of the push loop: wf_result_ring_push succeeds unless the ring
\* is full; a failed push counts, and the loop returns at MAX_PUSH_ATTEMPTS.
PushSpin(full, l) ==
    IF ~full THEN [l EXCEPT !.status = "pushed"]
    ELSE IF l.push_attempts + 1 >= MAX_PUSH_ATTEMPTS
         THEN [push_attempts |-> l.push_attempts + 1, status |-> "gave_up"]
         ELSE [l EXCEPT !.push_attempts = @ + 1]

\* n turns of the loop, or fewer when it has ended (evaluated by halves).
RECURSIVE PushSpins(_, _, _)
PushSpins(full, l, n) ==
    IF l.status # "spinning" \/ n = 0 THEN l
    ELSE IF n = 1 THEN PushSpin(full, l)
    ELSE PushSpins(full, PushSpins(full, l, n \div 2), n - (n \div 2))

\* while (!wf_result_ring_push(result_ring, &result)): nothing empties the
\* ring while the handler spins, so a full ring stays full.  The loop has
\* ended within MAX_PUSH_ATTEMPTS + 1 turns.
PushLoop(s, proc) ==
    PushSpins(Len(s.result_ring[proc]) >= RESULT_RING_SIZE,
              [push_attempts |-> 0, status |-> "spinning"], MAX_PUSH_ATTEMPTS + 1)

\* atomic_increment_u64(&execution_stats.errors), recorded with the entry and
\* the failed pushes before it.
ExecutionError(s, entry, push_attempts) ==
    Traced(s, "execution_stats.errors", entry.uid, push_attempts)

\* The trace records the steps with the entry's uid as they begin: the call
\* itself, the push into the result ring, INT 0x81, the workflow callback, the
\* cleanup of the deck results and the removal of the entry.
process_completed_event(s0, entry) ==
    LET s == HeldResults(Traced(s0, "process_completed_event", entry.uid, 0), entry, 1)
        proc == s.current_process IN
    IF proc = NULL THEN ExecutionError(s, entry, 0)
    ELSE IF ~s.process_table[proc].has_rings THEN ExecutionError(s, entry, 0)
    ELSE IF PushLoop(s, proc).status = "gave_up"
         THEN ExecutionError(s, entry, PushLoop(s, proc).push_attempts)
    ELSE
        LET s1 == [s EXCEPT !.result_ring[proc] = Append(@, collect_results(entry)),
                            !.owed = [i \in Slots |->
                                        IF i \in SlotsOfPid(s, entry.owner)
                                        THEN TRUE ELSE s.owed[i]]]
        IN DeliverAfterPush(Traced(s1, "wf_result_ring_push", entry.uid, proc), entry)

(***************************************************************************)
(* Guide and decks (guide.c)                                               *)
(***************************************************************************)
\* Outcome of one deck step: 0 for success, else the error code reported.
Outcomes == { 0, ERROR_TIMEOUT, ERROR_STORAGE_FILE_NOT_FOUND }

\* The scan routes a Processing entry to the deck named by
\* prefixes[current_index], or to Execution when that prefix is 0 or a deck
\* has aborted the entry.
NeedsDeck(entry) ==
    /\ entry.state = "PROCESSING"
    /\ entry.abort_flag = 0
    /\ CurrentPrefix(entry) # 0

ForExecution(entry) ==
    /\ entry.state = "PROCESSING"
    /\ (entry.abort_flag = 1 \/ CurrentPrefix(entry) = 0)

\* A deck's step on an entry: on success it stores a result of the type at
\* deck_results[current_index] and advances current_index; on error it sets
\* abort_flag and error_code.
DeckStepTyped(entry, outcome, type) ==
    IF outcome = 0
    THEN [entry EXCEPT !.has_result = @ \/ type # RESULT_TYPE_NONE,
                       !.deck_results = Append(@, ResultAddr(entry.uid,
                                                             entry.current_index, type)),
                       !.current_index = @ + 1]
    ELSE [entry EXCEPT !.abort_flag = 1, !.error_code = outcome]

\* A step whose result, if any, is heap-allocated.
DeckStep(entry, outcome) == DeckStepTyped(entry, outcome, RESULT_TYPE_KMALLOC)

SteppingUids(s) ==
    { AllEntries(s)[k].uid : k \in { j \in 1..Len(AllEntries(s)) : NeedsDeck(AllEntries(s)[j]) } }

\* The deck queues drained once: every entry waiting for a deck takes one
\* step.  With empty queues nothing is touched.
RunDecksTyped(s, oc, ty) ==
    IF DOMAIN oc = {} THEN s ELSE
    [s EXCEPT !.routing_table =
                 [b \in Buckets |->
                    [k \in 1..Len(s.routing_table[b]) |->
                        LET e == s.routing_table[b][k] IN
                        IF NeedsDeck(e) THEN DeckStepTyped(e, oc[e.uid], ty[e.uid]) ELSE e]],
              !.deck_failed = s.deck_failed \/ \E u \in DOMAIN oc : oc[u] # 0]

HeapResults(oc) == [u \in DOMAIN oc |-> RESULT_TYPE_KMALLOC]

RunDecks(s, oc) == RunDecksTyped(s, oc, HeapResults(oc))

\* The Execution queue after the second scan: uids in scan order.
ExecutionQueue(s) ==
    LET all == AllEntries(s)
        done == SelectSeq(all, ForExecution)
    IN [k \in 1..Len(done) |-> done[k].uid]

\* while (execution_deck_run_once());
RECURSIVE DrainExecution(_, _)
DrainExecution(s, queue) ==
    IF queue = << >> THEN s
    ELSE LET found == SelectSeq(AllEntries(s), LAMBDA e : e.uid = Head(queue))
         IN IF found = << >> THEN DrainExecution(s, Tail(queue))
            ELSE DrainExecution(process_completed_event(s, found[1]), Tail(queue))

guide_process_all_typed(s, oc, ty) ==
    LET s1 == RunDecksTyped(s, oc, ty)
    IN DrainExecution(s1, ExecutionQueue(s1))

guide_process_all(s, oc) == guide_process_all_typed(s, oc, HeapResults(oc))

(***************************************************************************)
(* The Hardware deck (hardware_deck.c)                                     *)
(***************************************************************************)
MAX_TIMERS == 64
TSC_PER_MS == 2400000
MAX_DELAY_MS == 3600000

DECK_PREFIX_HARDWARE == 3

EVENT_TIMER_CREATE == 300
EVENT_TIMER_CANCEL == 301
EVENT_TIMER_SLEEP == 302
EVENT_TIMER_GETTICKS == 303

ERROR_INVALID_PARAMETER == 2
ERROR_NOT_IMPLEMENTED == 5
ERROR_HW_TIMER_SLOTS_FULL == 769
ERROR_HW_TIMER_NOT_FOUND == 770

\* A slot of timers[] as the zeroed static array holds it.  suspended_entry
\* is the uid of the routing entry the timer points to, NULL if none.
NoTimer ==
    [ id |-> 0, owner_workflow_id |-> 0, expiration |-> 0, interval |-> 0,
      suspended_entry |-> NULL, active |-> 0 ]

\* The routing entry with the uid, as the table holds it.
EntryByUid(s, uid) ==
    LET found == SelectSeq(AllEntries(s), LAMBDA e : e.uid = uid)
    IN found[1]

\* A write through a RoutingEntry pointer: the entry of that uid is replaced
\* where it sits in its bucket.
SetEntry(s, e) ==
    LET b == routing_table_index(e.event_id)
        i == CHOOSE k \in 1..Len(s.routing_table[b]) : s.routing_table[b][k].uid = e.uid
    IN [s EXCEPT !.routing_table[b][i] = e]

\* The n-th 8-byte word of event_copy.data; the bytes past the copy are zero.
Word(entry, n) == IF n <= Len(entry.data) THEN entry.data[n] ELSE 0

\* deck_complete: the result of the type is stored at
\* deck_results[current_index] and current_index advances.
deck_complete(h, entry, type) ==
    [h EXCEPT !.k = SetEntry(h.k, DeckStepTyped(EntryByUid(h.k, entry), 0, type))]

\* deck_error_detailed: abort_flag and error_code are set.
deck_error_detailed(h, entry, error_code) ==
    [h EXCEPT !.k = [SetEntry(h.k, DeckStepTyped(EntryByUid(h.k, entry), error_code,
                                                 RESULT_TYPE_NONE))
                        EXCEPT !.deck_failed = TRUE]]

\* The first inactive slot from i on, MAX_TIMERS if there is none.
RECURSIVE FreeTimer(_, _)
FreeTimer(h, i) ==
    IF i >= MAX_TIMERS THEN MAX_TIMERS
    ELSE IF h.timers[i].active = 0 THEN i
    ELSE FreeTimer(h, i + 1)

\* timer_create: the first inactive slot takes the next id and, for a sleep,
\* the entry to resume; without a free slot nothing changes (the C function
\* returns 0).
timer_create(h, delay_ms, interval_ms, entry) ==
    LET i == FreeTimer(h, 0)
    IN IF i = MAX_TIMERS THEN h
       ELSE [h EXCEPT !.timers[i] =
                         [ id |-> h.next_timer_id,
                           owner_workflow_id |->
                               IF entry = NULL THEN 0
                               ELSE EntryByUid(h.k, entry).user_id,
                           expiration |-> h.tsc + delay_ms * TSC_PER_MS,
                           interval |-> interval_ms * TSC_PER_MS,
                           suspended_entry |-> entry,
                           active |-> 1 ],
                      !.next_timer_id = @ + 1]

\* The first active timer with the id from i on, MAX_TIMERS if none.
RECURSIVE TimerWithId(_, _, _)
TimerWithId(h, timer_id, i) ==
    IF i >= MAX_TIMERS THEN MAX_TIMERS
    ELSE IF h.timers[i].active = 1 /\ h.timers[i].id = timer_id THEN i
    ELSE TimerWithId(h, timer_id, i + 1)

\* timer_cancel: the active timer with the id is deactivated.
timer_cancel(h, timer_id) ==
    LET i == TimerWithId(h, timer_id, 0)
    IN IF i = MAX_TIMERS THEN h ELSE [h EXCEPT !.timers[i].active = 0]

\* timer_check_expired: every active timer whose expiration has passed
\* completes and resumes the entry it points to, then is re-armed if
\* periodic and deactivated if not.
RECURSIVE CheckExpiredFrom(_, _)
CheckExpiredFrom(h, i) ==
    IF i >= MAX_TIMERS THEN h
    ELSE LET t == h.timers[i] IN
         IF t.active = 1 /\ h.tsc >= t.expiration
         THEN LET h1 == IF t.suspended_entry # NULL
                        THEN LET done == deck_complete(h, t.suspended_entry,
                                                       RESULT_TYPE_NONE)
                                 woken == [EntryByUid(done.k, t.suspended_entry)
                                              EXCEPT !.state = "PROCESSING"]
                             IN [done EXCEPT !.k = SetEntry(done.k, woken),
                                             !.timers[i].suspended_entry = NULL]
                        ELSE h
                  h2 == IF t.interval > 0
                        THEN [h1 EXCEPT !.timers[i].expiration = h.tsc + t.interval]
                        ELSE [h1 EXCEPT !.timers[i].active = 0]
              IN CheckExpiredFrom(h2, i + 1)
         ELSE CheckExpiredFrom(h, i + 1)

timer_check_expired(h) == CheckExpiredFrom(h, 0)

\* hardware_deck_process on the entry with the uid.  The device operations
\* are stubs and are not among the events of the runs; a type of the band
\* without a case takes the default branch.
hardware_deck_process(h, entry) ==
    LET e == EntryByUid(h.k, entry) IN
    IF e.type < 300 \/ e.type >= 400
    THEN deck_error_detailed(h, entry, ERROR_INVALID_PARAMETER)
    ELSE IF e.type = EVENT_TIMER_CREATE
    THEN IF Word(e, 1) = 0 \/ Word(e, 1) > MAX_DELAY_MS \/ Word(e, 2) > MAX_DELAY_MS
         THEN deck_error_detailed(h, entry, ERROR_INVALID_PARAMETER)
         ELSE IF FreeTimer(h, 0) < MAX_TIMERS
         THEN deck_complete(timer_create(h, Word(e, 1), Word(e, 2), NULL), entry,
                            RESULT_TYPE_STATIC)
         ELSE deck_error_detailed(h, entry, ERROR_HW_TIMER_SLOTS_FULL)
    ELSE IF e.type = EVENT_TIMER_CANCEL
    THEN IF Word(e, 1) = 0
         THEN deck_error_detailed(h, entry, ERROR_INVALID_PARAMETER)
         ELSE IF TimerWithId(h, Word(e, 1), 0) < MAX_TIMERS
         THEN deck_complete(timer_cancel(h, Word(e, 1)), entry, RESULT_TYPE_NONE)
         ELSE deck_error_detailed(h, entry, ERROR_HW_TIMER_NOT_FOUND)
    ELSE IF e.type = EVENT_TIMER_SLEEP
    THEN IF Word(e, 1) = 0 \/ Word(e, 1) > MAX_DELAY_MS
         THEN deck_error_detailed(h, entry, ERROR_INVALID_PARAMETER)
         ELSE IF FreeTimer(h, 0) < MAX_TIMERS
         THEN LET h1 == timer_create(h, Word(e, 1), 0, entry)
              IN [h1 EXCEPT !.k = SetEntry(h1.k, [e EXCEPT !.state = "SUSPENDED"])]
         ELSE deck_error_detailed(h, entry, ERROR_HW_TIMER_SLOTS_FULL)
    ELSE IF e.type = EVENT_TIMER_GETTICKS
    THEN deck_complete(h, entry, RESULT_TYPE_VALUE)
    ELSE deck_error_detailed(h, entry, ERROR_NOT_IMPLEMENTED)

\* The Hardware deck's queue after the first scan: uids in scan order.
HardwareQueue(s) ==
    LET waiting == SelectSeq(AllEntries(s),
                             LAMBDA e : NeedsDeck(e) /\ CurrentPrefix(e) = DECK_PREFIX_HARDWARE)
    IN [k \in 1..Len(waiting) |-> waiting[k].uid]

\* while (hardware_deck_run_once()); each turn checks the timers and then
\* processes the head of the queue; the turn that finds the queue empty
\* still checks the timers.
RECURSIVE HardwareRun(_, _)
HardwareRun(h, queue) ==
    IF queue = << >> THEN timer_check_expired(h)
    ELSE HardwareRun(hardware_deck_process(timer_check_expired(h), Head(queue)),
                     Tail(queue))

\* guide_process_all when only the Hardware deck has work: its queue is
\* drained, the second scan fills the Execution queue, and that is drained.
guide_process_all_hardware(h) ==
    LET h1 == HardwareRun(h, HardwareQueue(h.k))
    IN [h1 EXCEPT !.k = DrainExecution(h1.k, ExecutionQueue(h1.k))]

(***************************************************************************)
(* The notify syscall (idt.c, syscall_handler)                             *)
(***************************************************************************)
HasFlag(flags, bit) == (flags \div bit) % 2 = 1

\* The submit loop: pop until the ring is empty; an event of another
\* workflow or with an oversized payload is dropped; every other event takes
\* the next id from global_event_id_counter (fetch-and-increment) and goes
\* to the routing table.
RECURSIVE SubmitLoop(_, _, _)
SubmitLoop(s, proc, workflow_id) ==
    IF s.event_ring[proc] = << >> THEN s
    ELSE LET user_event == Head(s.event_ring[proc])
             s1 == [s EXCEPT !.event_ring[proc] = Tail(@)]
         IN IF user_event.workflow_id # workflow_id THEN SubmitLoop(s1, proc, workflow_id)
            ELSE IF user_event.payload_size > MAX_EVENT_PAYLOAD_SIZE
                 THEN SubmitLoop(s1, proc, workflow_id)
            ELSE LET stamped == [ id |-> s1.global_event_id_counter,
                                  workflow_id |-> user_event.workflow_id,
                                  type |-> user_event.type,
                                  route |-> user_event.route,
                                  payload_size |-> user_event.payload_size,
                                  payload |-> Payload(user_event) ]
                     s2 == [s1 EXCEPT !.global_event_id_counter = @ + 1]
                 IN SubmitLoop(routing_table_add_event(s2, stamped,
                                   s.process_table[proc].pid, -1, TRUE),
                               proc, workflow_id)

\* The handler's frame->rax = v.  The two's complement reading is kept:
\* (uint64_t)-2 is -2.
SetRax(s, workflow_id, flags, v) ==
    [s EXCEPT !.frame = [int_no |-> SYSCALL_VECTOR, rdi |-> workflow_id,
                         rsi |-> flags, rax |-> v]]

\* The handler writes rax after scheduler_yield_cooperative only when that
\* call returns: not while it sits in a hlt loop with no current process.
SetRaxOnReturn(s, workflow_id, flags, v) ==
    IF s.current_process = NULL THEN s ELSE SetRax(s, workflow_id, flags, v)

\* A Poll branch that gives up the CPU before it answers.
notify_poll_Yields(s, workflow_id, flags) ==
    LET sy == scheduler_yield_cooperative(s) IN
    IF workflow_get(sy, workflow_id) = NULL THEN SetRax(sy, workflow_id, flags, -1)
    ELSE IF sy.registry[workflow_get(sy, workflow_id)].state = WORKFLOW_STATE_COMPLETED
    THEN SetRax(sy, workflow_id, flags, 0)
    ELSE SetRax(sy, workflow_id, flags, 1)

\* The NOTIFY_POLL branch: -1 for an unknown workflow, 0 for a completed
\* one, 1 otherwise.
notify_poll(s, workflow_id, flags) ==
    IF workflow_get(s, workflow_id) = NULL THEN SetRax(s, workflow_id, flags, -1)
    ELSE IF s.registry[workflow_get(s, workflow_id)].state = WORKFLOW_STATE_COMPLETED
    THEN SetRax(s, workflow_id, flags, 0)
    ELSE SetRax(s, workflow_id, flags, 1)

\* A handler that looks at the Wait bit before the Submit bit.
syscall_handler_WaitFirst(s, workflow_id, flags) ==
    LET proc == s.current_process IN
    IF proc = NULL THEN SetRax(s, workflow_id, flags, -1)
    ELSE
    LET sw == SetProc(s, proc, "last_syscall_tick", s.total_ticks) IN
    IF workflow_id >= MAX_WORKFLOWS THEN SetRax(sw, workflow_id, flags, -2)
    ELSE IF flags > VALID_FLAGS_MASK THEN SetRax(sw, workflow_id, flags, -3)
    ELSE IF ~sw.process_table[proc].has_rings THEN SetRax(sw, workflow_id, flags, -4)
    ELSE IF flags = 0 THEN SetRax(sw, workflow_id, flags, -5)
    ELSE IF HasFlag(flags, NOTIFY_WAIT) THEN
        IF workflow_get(sw, workflow_id) = NULL THEN SetRax(sw, workflow_id, flags, -1)
        ELSE IF sw.process_table[proc].completion_ready # 0
        THEN SetRax([SetProc(sw, proc, "completion_ready", 0)
                        EXCEPT !.owed[proc] = FALSE,
                               !.wait_ret = [pid |-> sw.process_table[proc].pid,
                                             wf |-> workflow_id, immediate |-> TRUE]],
                    workflow_id, flags, 0)
        ELSE LET s1 == SetProc(SetProc(sw, proc, "state", PROCESS_STATE_WAITING),
                               proc, "current_workflow_id", workflow_id)
                 s2 == scheduler_yield_cooperative([s1 EXCEPT !.in_wait[proc] = TRUE])
             IN IF s2.idle # NULL THEN s2
                ELSE SetRax(SetProc(s2, proc, "completion_ready", 0),
                            workflow_id, flags, 0)
    ELSE IF HasFlag(flags, NOTIFY_SUBMIT) THEN
        LET s1 == SubmitLoop(sw, proc, workflow_id)
            processed == Len(s1.inserted) - Len(sw.inserted)
        IN SetRax(s1, workflow_id, flags, processed)
    ELSE IF HasFlag(flags, NOTIFY_POLL) THEN notify_poll(sw, workflow_id, flags)
    ELSE IF HasFlag(flags, NOTIFY_YIELD)
         THEN SetRaxOnReturn(scheduler_yield_cooperative(sw), workflow_id, flags, 0)
    ELSE IF HasFlag(flags, NOTIFY_EXIT)
         THEN SetRaxOnReturn(
                  scheduler_yield_cooperative(SetProc(sw, proc, "state", PROCESS_STATE_ZOMBIE)),
                  workflow_id, flags, 0)
    ELSE SetRax(sw, workflow_id, flags, -1)

\* A handler that drains the ring before it validates its arguments.
syscall_handler_SubmitFirst(s, workflow_id, flags) ==
    LET proc == s.current_process IN
    IF proc = NULL THEN SetRax(s, workflow_id, flags, -1)
    ELSE
    LET sw == SetProc(s, proc, "last_syscall_tick", s.total_ticks)
        s1 == IF HasFlag(flags, NOTIFY_SUBMIT) /\ sw.process_table[proc].has_rings
              THEN SubmitLoop(sw, proc, workflow_id) ELSE sw
    IN
    IF workflow_id >= MAX_WORKFLOWS THEN SetRax(s1, workflow_id, flags, -2)
    ELSE IF flags > VALID_FLAGS_MASK THEN SetRax(s1, workflow_id, flags, -3)
    ELSE IF flags = 0 THEN SetRax(s1, workflow_id, flags, -5)
    ELSE SetRax(s1, workflow_id, flags, Len(s1.inserted) - Len(sw.inserted))

syscall_handler(s, workflow_id, flags) ==
    LET proc == s.current_process IN
    IF proc = NULL THEN SetRax(s, workflow_id, flags, -1)
    ELSE
    LET sw == SetProc(s, proc, "last_syscall_tick", s.total_ticks) IN
    IF workflow_id >= MAX_WORKFLOWS THEN SetRax(sw, workflow_id, flags, -2)
    ELSE IF flags > VALID_FLAGS_MASK THEN SetRax(sw, workflow_id, flags, -3)
    ELSE IF ~sw.process_table[proc].has_rings THEN SetRax(sw, workflow_id, flags, -4)
    ELSE IF flags = 0 THEN SetRax(sw, workflow_id, flags, -5)
    ELSE IF HasFlag(flags, NOTIFY_SUBMIT) THEN
        LET s1 == SubmitLoop(sw, proc, workflow_id)
            processed == Len(s1.inserted) - Len(sw.inserted)
        IN SetRax(s1, workflow_id, flags, processed)
    ELSE IF HasFlag(flags, NOTIFY_WAIT) THEN
        IF workflow_get(sw, workflow_id) = NULL THEN SetRax(sw, workflow_id, flags, -1)
        ELSE IF sw.process_table[proc].completion_ready # 0
        THEN SetRax([SetProc(sw, proc, "completion_ready", 0)
                        EXCEPT !.owed[proc] = FALSE,
                               !.wait_ret = [pid |-> sw.process_table[proc].pid,
                                             wf |-> workflow_id, immediate |-> TRUE]],
                    workflow_id, flags, 0)
        ELSE LET s1 == SetProc(SetProc(sw, proc, "state", PROCESS_STATE_WAITING),
                               proc, "current_workflow_id", workflow_id)
                 s2 == scheduler_yield_cooperative([s1 EXCEPT !.in_wait[proc] = TRUE])
             IN IF s2.idle # NULL THEN s2
                ELSE SetRax(SetProc(s2, proc, "completion_ready", 0),
                            workflow_id, flags, 0)
    ELSE IF HasFlag(flags, NOTIFY_POLL) THEN notify_poll(sw, workflow_id, flags)
    ELSE IF HasFlag(flags, NOTIFY_YIELD)
         THEN SetRaxOnReturn(scheduler_yield_cooperative(sw), workflow_id, flags, 0)
    ELSE IF HasFlag(flags, NOTIFY_EXIT)
         THEN SetRaxOnReturn(
                  scheduler_yield_cooperative(SetProc(sw, proc, "state", PROCESS_STATE_ZOMBIE)),
                  workflow_id, flags, 0)
    ELSE SetRax(sw, workflow_id, flags, -1)

(***************************************************************************)
(* Registered workflows (workflow_register) and initial state              *)
(***************************************************************************)
\* One node as workflow_register stores it.
NewNode(deps) ==
    [ type |-> 100, dependencies |-> deps, ready |-> 0, completed |-> 0,
      error |-> 0, retry_count |-> 0, last_error_code |-> 0, event_id |-> 0,
      result |-> NULL ]

\* deps lists, node by node, the indices each node depends on.
workflow_register(workflow_id, route, deps, owner_pid, policy) ==
    [ workflow_id |-> workflow_id,
      owner_pid |-> owner_pid,
      route |-> route,
      event_count |-> Len(deps),
      events |-> [i \in 0..(Len(deps) - 1) |-> NewNode(deps[i + 1])],
      state |-> WORKFLOW_STATE_REGISTERED,
      activation_count |-> 0,
      error_policy |-> policy,
      retry_config |-> [enabled |-> 1, max_retries |-> 3],
      has_context |-> FALSE,
      context |-> [ total_events |-> 0, completed_events |-> 0,
                    running_events |-> 0, error_count |-> 0,
                    failed_event_index |-> 0 ] ]

\* Dependency graphs of one to three nodes: one node, two roots, node 1
\* after node 0, node 0 after node 1, and the chain 0, 1, 2.
WorkflowShapes ==
    { << << >> >>, << << >>, << >> >>, << << >>, << 0 >> >>, << << 1 >>, << >> >>,
      << << >>, << 0 >>, << 1 >> >> }

ErrorPolicies == { ERROR_POLICY_ABORT, ERROR_POLICY_CONTINUE, ERROR_POLICY_SKIP }

\* The state after the init functions, with one workflow registered.
InitState(w) ==
    [ process_table |-> [i \in Slots |-> ZeroProcess],
      next_pid |-> 1,
      current_process |-> NULL,
      ready_queue |-> << >>,
      time_slice_remaining |-> TIME_SLICE_TICKS,
      idle |-> NULL,
      event_ring |-> [i \in Slots |-> << >>],
      result_ring |-> [i \in Slots |-> << >>],
      routing_table |-> [b \in Buckets |-> << >>],
      global_event_id_counter |-> 0,
      registry |-> [id \in {1} |-> w],
      inserted |-> << >>,
      owed |-> [i \in Slots |-> FALSE],
      in_wait |-> [i \in Slots |-> FALSE],
      wait_ret |-> NoRet,
      deck_failed |-> FALSE,
      total_ticks |-> 0,
      frame |-> NoFrame,
      trace |-> << >> ]

StartKernel(s) ==
    /\ process_table = s.process_table
    /\ next_pid = s.next_pid
    /\ current_process = s.current_process
    /\ ready_queue = s.ready_queue
    /\ time_slice_remaining = s.time_slice_remaining
    /\ idle = s.idle
    /\ event_ring = s.event_ring
    /\ result_ring = s.result_ring
    /\ routing_table = s.routing_table
    /\ global_event_id_counter = s.global_event_id_counter
    /\ registry = s.registry
    /\ inserted = s.inserted
    /\ owed = s.owed
    /\ in_wait = s.in_wait
    /\ wait_ret = s.wait_ret
    /\ deck_failed = s.deck_failed
    /\ total_ticks = s.total_ticks
    /\ frame = s.frame
    /\ trace = << >>
    /\ timers = [i \in 0..(MAX_TIMERS - 1) |-> NoTimer]
    /\ next_timer_id = 1
    /\ tsc = 0

\* The ring of the ring-level runs is left as created in every other run.
Start(s) ==
    /\ StartKernel(s)
    /\ ring = NewRing("event")

\* kernel_main's workflow: one node, route {1}, no owner, default policy.
Init ==
    Start(InitState(workflow_register(1, << 1 >>, << << >> >>, 0, ERROR_POLICY_ABORT)))

\* The state in which kernel_main enters user mode with one process: created,
\* queued, picked and made current.  The registered workflow is one of the
\* shapes, owned by that process, with one of the error policies.
InitWith(deps, policy) ==
    LET s0 == InitState(workflow_register(1, << 1 >>, deps, 1, policy))
        s1 == scheduler_add_process(process_create(s0), FreeSlot(s0))
        pk == scheduler_pick_next(s1)
    IN Start(SwitchTo(pk.s, pk.next))

InitWf == \E deps \in WorkflowShapes, policy \in ErrorPolicies : InitWith(deps, policy)

(***************************************************************************)
(* Actions                                                                 *)
(***************************************************************************)
\* The state a handler starts from: no Wait return and no rax reported yet.
K0 == [K EXCEPT !.wait_ret = NoRet, !.frame = NoFrame, !.trace = << >>]

\* User code runs: a process is current with its address space loaded.
UserRunning ==
    /\ current_process # NULL
    /\ process_table[current_process].has_rings

UserEvents ==
    { [workflow_id |-> 1, type |-> 100, route |-> << 1 >>, payload_size |-> 0] }

\* Events pushed so far and not dropped.
PushedCount ==
    LET RECURSIVE Sum(_)
        Sum(i) == IF i > MaxProc THEN 0 ELSE Len(event_ring[i]) + Sum(i + 1)
    IN global_event_id_counter + Sum(1)

\* process_create followed by scheduler_add_process, as main does for each
\* process it starts.
SpawnUpTo(max) ==
    /\ next_pid <= max
    /\ LET proc == FreeSlot(K0)
       IN Commit(scheduler_add_process(process_create(K0), proc))

Spawn == SpawnUpTo(MaxSpawn)

\* User code pushes an event into its own event ring (wf_event_ring_push).
UserPush(ev, max) ==
    /\ UserRunning
    /\ PushedCount < max
    /\ Len(event_ring[current_process]) < EVENT_RING_SIZE
    /\ Commit([K0 EXCEPT !.event_ring[current_process] = Append(@, ev)])

\* User code pops a result from its own result ring (wf_result_ring_pop).
UserPopResult ==
    /\ UserRunning
    /\ result_ring[current_process] # << >>
    /\ Commit([K0 EXCEPT !.result_ring[current_process] = Tail(@)])

\* INT 0x80.
Notify(workflow_id, flags) ==
    /\ UserRunning
    /\ Commit(syscall_handler(K0, workflow_id, flags))

\* IRQ 0: guide_process_all, then scheduler_tick.
TimerTick(oc, max) ==
    /\ total_ticks < max
    /\ Commit(scheduler_tick(guide_process_all(K0, oc)))

\* The same with deck results of any type.
TimerTickTyped(oc, ty, max) ==
    /\ total_ticks < max
    /\ Commit(scheduler_tick(guide_process_all_typed(K0, oc, ty)))

\* The hlt loop of a blocked notify(Wait) finds the ready queue non-empty
\* after an interrupt, picks, and the syscall returns into the picked process.
IdleWake ==
    /\ idle # NULL
    /\ Len(ready_queue) > 0
    /\ LET pk == scheduler_pick_next(K0)
       IN Commit(SetRax(SetProc(SwitchTo(pk.s, pk.next), idle, "completion_ready", 0),
                        process_table[idle].current_workflow_id, NOTIFY_WAIT, 0))

\* The kernel activates a registered workflow.
Activate(workflow_id) ==
    /\ workflow_id \in DOMAIN registry
    /\ registry[workflow_id].activation_count < MaxActivations
    /\ Commit(workflow_activate(K0, workflow_id))

\* A timer tick on which every deck step succeeds.
Tick == \E oc \in [SteppingUids(K) -> {0}] : TimerTick(oc, MaxTicks)

\* Processes, the scheduler and notify, with events pushed by user code
\* whose deck steps succeed; the registered workflow is never activated.
Next ==
    \/ Spawn
    \/ \E ev \in UserEvents : UserPush(ev, MaxPush)
    \/ UserPopResult
    \/ \E flags \in {NOTIFY_SUBMIT, NOTIFY_WAIT, NOTIFY_POLL, NOTIFY_YIELD, NOTIFY_EXIT} :
          Notify(1, flags)
    \/ Tick
    \/ IdleWake

Spec == Init /\ [][Next]_vars

\* A timer tick with any outcome of each deck step.
TickAny == \E oc \in [SteppingUids(K) -> Outcomes] : TimerTick(oc, MaxTicks)

\* The workflow engine under one running process: activation, timer ticks
\* with every deck outcome, and events submitted by the process.
NextWf ==
    \/ Activate(1)
    \/ TickAny
    \/ \E ev \in UserEvents : UserPush(ev, MaxPushWf)
    \/ Notify(1, NOTIFY_SUBMIT)

SpecWf == InitWf /\ [][NextWf]_vars

\* Events user code may leave in its event ring: a valid one, one of another
\* workflow, one with an oversized payload, one with a type above 255.
SysEvents ==
    { [workflow_id |-> 1, type |-> 100, route |-> << 1 >>, payload_size |-> 0],
      [workflow_id |-> 2, type |-> 100, route |-> << 1 >>, payload_size |-> 0],
      [workflow_id |-> 1, type |-> 100, route |-> << 1 >>,
       payload_size |-> MAX_EVENT_PAYLOAD_SIZE + 1],
      [workflow_id |-> 1, type |-> MAX_EVENT_TYPE + 1, route |-> << 1 >>,
       payload_size |-> 0] }

\* Arguments of notify: a registered workflow, an unregistered one and an id
\* out of range; no flag, Submit, Poll, and Submit with a bit outside the mask.
SysWorkflowIds == { 1, 2, MAX_WORKFLOWS }

SysFlags == { 0, NOTIFY_SUBMIT, NOTIFY_POLL, VALID_FLAGS_MASK + 1 + NOTIFY_SUBMIT }

\* process_create followed later by scheduler_add_process of what it returned.
CreateAndQueue(s) == scheduler_add_process(process_create(s), FreeSlot(s))

\* The state in which kernel_main enters user mode: its workflow registered,
\* three processes created and queued, the first one picked and entered.
InitSys ==
    LET s0 == InitState(workflow_register(1, << 1 >>, << << >> >>, 0, ERROR_POLICY_ABORT))
        s3 == CreateAndQueue(CreateAndQueue(CreateAndQueue(s0)))
        pk == scheduler_pick_next(s3)
    IN Start(SwitchTo(pk.s, pk.next))

TickSys == \E oc \in [SteppingUids(K) -> {0}] : TimerTick(oc, MaxTicksSys)

\* The notify interface with every kind of argument, valid and invalid.
NextSys ==
    \/ \E ev \in SysEvents : UserPush(ev, MaxPushSys)
    \/ \E workflow_id \in SysWorkflowIds, flags \in SysFlags : Notify(workflow_id, flags)
    \/ Activate(1)
    \/ TickSys

SpecSys == InitSys /\ [][NextSys]_vars

\* The watchdog at work: the processes are created before the second tick
\* and make their syscalls at tick 1 or at tick WATCHDOG_PERIOD_TICKS, then
\* compute without a syscall for more than WATCHDOG_TIMEOUT_TICKS ticks; once
\* the watchdog has marked a process, syscalls are made again.
MaxTicksWd == 1112

BusyTicks == { 1, WATCHDOG_PERIOD_TICKS }

Busy ==
    \/ total_ticks \in BusyTicks
    \/ \E i \in Slots : process_table[i].state = PROCESS_STATE_ZOMBIE

SpawnWd == total_ticks <= 1 /\ Spawn

NotifyWd ==
    Busy /\ \E flags \in {NOTIFY_POLL, NOTIFY_YIELD, NOTIFY_WAIT} : Notify(1, flags)

TickWd == \E oc \in [SteppingUids(K) -> {0}] : TimerTick(oc, MaxTicksWd)

NextWd ==
    \/ SpawnWd
    \/ NotifyWd
    \/ TickWd

SpecWd == Init /\ [][NextWd]_vars

\* Time slices: up to three processes are created before the second tick,
\* push an event and make their syscalls at tick 1, and then compute through
\* several time slices.
MaxSpawnTs == 3

MaxTicksTs == 32

MaxPushTs == 1

SpawnTs == total_ticks <= 1 /\ SpawnUpTo(MaxSpawnTs)

PushTs == total_ticks = 1 /\ \E ev \in UserEvents : UserPush(ev, MaxPushTs)

NotifyTs ==
    /\ total_ticks = 1
    /\ \E flags \in {NOTIFY_SUBMIT, NOTIFY_WAIT, NOTIFY_POLL, NOTIFY_YIELD} :
          Notify(1, flags)

TickTs == \E oc \in [SteppingUids(K) -> {0}] : TimerTick(oc, MaxTicksTs)

NextTs ==
    \/ SpawnTs
    \/ PushTs
    \/ NotifyTs
    \/ TickTs

SpecTs == Init /\ [][NextTs]_vars

\* One ring with its producer and its consumer.  The producer pushes records
\* numbered in push order; the consumer pops and later finishes with the
\* record whose address it got.  The three steps interleave freely.
MaxRingPushes == 258

MaxRingPops == 2

kernel_vars ==
    << process_table, next_pid, current_process, ready_queue,
       time_slice_remaining, idle, event_ring, result_ring, routing_table,
       global_event_id_counter, registry, inserted, owed, in_wait, wait_ret,
       deck_failed, total_ticks, frame, trace >>

InitRing ==
    /\ StartKernel(InitState(workflow_register(1, << 1 >>, << << >> >>, 0,
                                              ERROR_POLICY_ABORT)))
    /\ \E kind \in {"event", "result"} : ring = NewRing(kind)

\* The producer pushes the next record, numbered in push order; pushes are
\* attempted while at most MaxRingPushes records have been accepted.
RingPush ==
    /\ ring.tail <= MaxRingPushes
    /\ ring' = wf_ring_push(ring, ring.tail + 1)
    /\ UNCHANGED kernel_vars
    /\ UNCHANGED hardware_vars

RingPop ==
    /\ ring.head < MaxRingPops
    /\ ring.held = NotHeld
    /\ ring' = wf_ring_pop(ring)
    /\ UNCHANGED kernel_vars
    /\ UNCHANGED hardware_vars

\* The consumer has read the record and drops the pointer.
RingRelease ==
    /\ ring.held # NotHeld
    /\ ring' = [ring EXCEPT !.held = NotHeld, !.last = NoCall]
    /\ UNCHANGED kernel_vars
    /\ UNCHANGED hardware_vars

NextRing ==
    \/ RingPush
    \/ RingPop
    \/ RingRelease

SpecRing == InitRing /\ [][NextRing]_vars

\* The deck results and their release: one running process that owns a
\* workflow of one node with a route of two decks, activated up to
\* MaxActivationsRes times, and events of one deck step pushed by the
\* process; each deck step fails or stores a result of any type.
MaxActivationsRes == 2
MaxTicksRes == 3
MaxPushRes == 1

InitRes ==
    LET s0 == InitState(workflow_register(1, << 1, 2 >>, << << >> >>, 1,
                                          ERROR_POLICY_CONTINUE))
        s1 == scheduler_add_process(process_create(s0), FreeSlot(s0))
        pk == scheduler_pick_next(s1)
    IN Start(SwitchTo(pk.s, pk.next))

ActivateRes ==
    /\ registry[1].activation_count < MaxActivationsRes
    /\ Commit(workflow_activate(K0, 1))

TickRes ==
    \E oc \in [SteppingUids(K) -> { 0, ERROR_STORAGE_FILE_NOT_FOUND }],
       ty \in [SteppingUids(K) -> ResultTypes] : TimerTickTyped(oc, ty, MaxTicksRes)

NextRes ==
    \/ ActivateRes
    \/ TickRes
    \/ \E ev \in UserEvents : UserPush(ev, MaxPushRes)
    \/ Notify(1, NOTIFY_SUBMIT)

SpecRes == InitRes /\ [][NextRes]_vars

\* The Execution deck's deliveries: the workflow engine as above over the
\* first MaxTicksEx timer ticks, for a workflow of two roots or of two
\* nodes in a chain.
MaxTicksEx == 1

InitEx ==
    \E deps \in { << << >>, << >> >>, << << >>, << 0 >> >> },
       policy \in { ERROR_POLICY_ABORT, ERROR_POLICY_CONTINUE } : InitWith(deps, policy)

TickEx == \E oc \in [SteppingUids(K) -> Outcomes] : TimerTick(oc, MaxTicksEx)

NextEx ==
    \/ Activate(1)
    \/ TickEx
    \/ \E ev \in UserEvents : UserPush(ev, MaxPushWf)
    \/ Notify(1, NOTIFY_SUBMIT)

SpecEx == InitEx /\ [][NextEx]_vars

\* A process that submits one event at a time and never pops a result: the
\* result ring fills up, and the Execution deck finds it full.
MaxPushFull == 257

PushFull ==
    /\ event_ring[current_process] = << >>
    /\ AllEntries(K) = << >>
    /\ \E ev \in UserEvents : UserPush(ev, MaxPushFull)

NotifyFull ==
    /\ UserRunning
    /\ event_ring[current_process] # << >>
    /\ Notify(1, NOTIFY_SUBMIT)

TickFull ==
    /\ AllEntries(K) # << >>
    /\ \E oc \in [SteppingUids(K) -> {0}] : TimerTick(oc, MaxPushFull)

NextFull ==
    \/ PushFull
    \/ NotifyFull
    \/ TickFull

SpecFull == InitWith(<< << >> >>, ERROR_POLICY_ABORT) /\ [][NextFull]_vars

\* Activation after activation: a workflow of one node or of two roots,
\* whose deck steps succeed, time out or fail for good, activated up to
\* MaxActivationsAct times.
MaxActivationsAct == 2
MaxTicksAct == 3

ActivateAct ==
    /\ registry[1].activation_count < MaxActivationsAct
    /\ Commit(workflow_activate(K0, 1))

TickAct ==
    \E oc \in [SteppingUids(K) -> Outcomes] : TimerTick(oc, MaxTicksAct)

NextAct ==
    \/ ActivateAct
    \/ TickAct

SpecAct ==
    /\ \E deps \in { << << >> >>, << << >>, << >> >> }, policy \in ErrorPolicies :
          InitWith(deps, policy)
    /\ [][NextAct]_vars

\* The timers at work: the one process pushes timer events routed to the
\* Hardware deck and submits them; each timer interrupt reads a clock that
\* has stood still or advanced by a millisecond since the last one.
MaxPushHw == 2

MaxTicksHw == 3

HardwareEvents ==
    { [workflow_id |-> 1, type |-> EVENT_TIMER_SLEEP,
       route |-> << DECK_PREFIX_HARDWARE >>, payload_size |-> 8, payload |-> << 1 >>],
      [workflow_id |-> 1, type |-> EVENT_TIMER_CREATE,
       route |-> << DECK_PREFIX_HARDWARE >>, payload_size |-> 16, payload |-> << 1, 0 >>],
      [workflow_id |-> 1, type |-> EVENT_TIMER_CANCEL,
       route |-> << DECK_PREFIX_HARDWARE >>, payload_size |-> 8, payload |-> << 1 >>],
      [workflow_id |-> 1, type |-> EVENT_TIMER_CANCEL,
       route |-> << DECK_PREFIX_HARDWARE >>, payload_size |-> 8, payload |-> << 2 >>] }

\* The Hardware deck's state next to the kernel's, the clock advanced by d.
H(d) == [ k |-> K0, timers |-> timers, next_timer_id |-> next_timer_id, tsc |-> tsc + d ]

PushHw == \E ev \in HardwareEvents : UserPush(ev, MaxPushHw)

NotifyHw == Notify(1, NOTIFY_SUBMIT)

\* IRQ 0 with the Hardware deck modelled: guide_process_all, scheduler_tick.
TickHw ==
    \E d \in { 0, TSC_PER_MS } :
        /\ total_ticks < MaxTicksHw
        /\ LET r == guide_process_all_hardware(H(d))
           IN /\ CommitKernel(scheduler_tick(r.k))
              /\ timers' = r.timers
              /\ next_timer_id' = r.next_timer_id
              /\ tsc' = r.tsc
        /\ UNCHANGED ring

NextHw ==
    \/ PushHw
    \/ NotifyHw
    \/ TickHw

SpecHw == InitWith(<< << >> >>, ERROR_POLICY_ABORT) /\ [][NextHw]_vars

\* notify with every combination of flag bits: the one process pushes
\* events and calls notify for a registered and an unregistered workflow
\* with any non-empty set of valid bits; timer ticks complete its events.
MaxPushFl == 2

MaxTicksFl == 2

FlagSets == 1..VALID_FLAGS_MASK

FlWorkflowIds == { 1, 2 }

PushFl == \E ev \in UserEvents : UserPush(ev, MaxPushFl)

NotifyFl == \E workflow_id \in FlWorkflowIds, flags \in FlagSets : Notify(workflow_id, flags)

TickFl == \E oc \in [SteppingUids(K) -> {0}] : TimerTick(oc, MaxTicksFl)

NextFl ==
    \/ PushFl
    \/ NotifyFl
    \/ TickFl

SpecFl == InitWith(<< << >> >>, ERROR_POLICY_ABORT) /\ [][NextFl]_vars

(***************************************************************************)
(* Claims                                                                  *)
(***************************************************************************)
\* Process i has an event of workflow wf in the routing table.
InFlight(i, wf) ==
    \E k \in 1..Len(AllEntries(K)) :
        /\ AllEntries(K)[k].owner # 0
        /\ AllEntries(K)[k].owner = process_table[i].pid
        /\ AllEntries(K)[k].user_id = wf

\* C1: every RingResult sits in the result ring of the process that
\* submitted its event, and in no other process's ring.
C1_ResultInOwnersRing ==
    \A i \in Slots : \A k \in 1..Len(result_ring[i]) :
        result_ring[i][k].owner = process_table[i].pid

\* C2: a notify(Wait) of process P on workflow W returns only when no event
\* P submitted under W is still in the routing table.
C2_WaitReturnsAfterCompletion ==
    wait_ret.pid # 0 =>
        ~ \E k \in 1..Len(AllEntries(K)) :
              /\ AllEntries(K)[k].owner = wait_ret.pid
              /\ AllEntries(K)[k].user_id = wait_ret.wf

\* The state a timer tick with successful deck steps leads to.
AfterTick == scheduler_tick(guide_process_all(K0, [u \in SteppingUids(K) |-> 0]))

\* C3: while a process is blocked in notify(Wait) with an event of its own
\* in the routing table, a timer tick makes progress: it changes the state
\* (a deck step, the delivery of a result, a wake-up), so that ticks alone
\* bring the waiter back to the CPU.  The tick counter, which every tick
\* advances, and the record of the calls made are not progress.
C3_TickServesWaiter ==
    \A i \in Slots :
        (in_wait[i] /\ InFlight(i, process_table[i].current_workflow_id))
            => [AfterTick EXCEPT !.total_ticks = total_ticks, !.trace = << >>] # K0

\* C4: a process whose submitted events have all completed (result pushed,
\* completion interrupt raised) since its last Wait does not block when it
\* calls notify(Wait).
C4_WaitAfterCompletionDoesNotBlock ==
    [][ \A i \in Slots :
          (~in_wait[i] /\ in_wait'[i]) =>
              ~(owed[i] /\ event_ring[i] = << >> /\ \A wf \in {1, 2} : ~InFlight(i, wf)) ]_vars

\* C5: the events inserted into the routing table carry strictly increasing
\* ids, in the order of their insertion, whichever path submitted them.
C5_IdsStrictlyIncrease ==
    \A i \in 1..Len(inserted) : \A j \in 1..Len(inserted) :
        i < j => inserted[i].id < inserted[j].id

\* C6: no two entries of the routing table carry the same event id, and
\* every entry sits in bucket (event_id mod 64).
C6_OneEntryPerId ==
    /\ \A b \in Buckets : \A k \in 1..Len(routing_table[b]) :
          routing_table_index(routing_table[b][k].event_id) = b
    /\ \A i \in 1..Len(AllEntries(K)) : \A j \in 1..Len(AllEntries(K)) :
          i # j => AllEntries(K)[i].event_id # AllEntries(K)[j].event_id

\* The node a routing entry was built from.
NodeOf(entry) == registry[entry.user_id].events[entry.node]

\* C7: while no deck step has failed, every node whose event is in the
\* routing table is recorded as submitted and not errored, under the
\* event's id, and its workflow is Running.
C7_InsertedNodeInFlight ==
    ~deck_failed =>
        \A k \in 1..Len(AllEntries(K)) :
            LET e == AllEntries(K)[k] IN
            e.node >= 0 =>
                /\ registry[e.user_id].state = WORKFLOW_STATE_RUNNING
                /\ NodeOf(e).ready = 1
                /\ NodeOf(e).error = 0
                /\ NodeOf(e).event_id = e.event_id

\* C8: every workflow event ever inserted into the routing table was
\* submitted in a state where all dependencies of its node had completed=1
\* and error=0.
C8_SubmittedWithDependenciesMet ==
    \A k \in 1..Len(inserted) :
        inserted[k].node >= 0 => inserted[k].deps_met

AllNodesTerminal(w) ==
    \A i \in Nodes(w) : w.events[i].completed = 1 \/ w.events[i].error = 1

\* C9: an activated workflow is Completed or Error exactly when every one
\* of its nodes has completed=1 or error=1.
C9_TerminalIffAllNodesTerminal ==
    \A id \in DOMAIN registry :
        registry[id].has_context =>
            (registry[id].state \in {WORKFLOW_STATE_COMPLETED, WORKFLOW_STATE_ERROR}
                <=> AllNodesTerminal(registry[id]))

\* C10: a Completed workflow has completed_events = total_events -
\* error_count, and each of its nodes has completed=1 or error=1.
C10_CompletedAccounting ==
    \A id \in DOMAIN registry :
        registry[id].state = WORKFLOW_STATE_COMPLETED =>
            /\ registry[id].context.completed_events =
                  registry[id].context.total_events - registry[id].context.error_count
            /\ AllNodesTerminal(registry[id])

\* Number of events inserted so far by the workflow engine (built from a node).
NodeSubmissions(log) ==
    Len(SelectSeq(log, LAMBDA r : r.node >= 0))

\* C11: under the Abort policy a permanent failure of a node puts the
\* workflow in state Error, and while the workflow is not activated again
\* a workflow in state Error stays in state Error, none of its nodes is
\* submitted and none becomes ready, whatever completes afterwards.
C11_AbortStopsWorkflow ==
    [][ \A id \in DOMAIN registry :
          LET w == registry[id]
              w2 == registry'[id]
          IN
          (w.error_policy = ERROR_POLICY_ABORT /\ w.has_context
             /\ w2.activation_count = w.activation_count) =>
              /\ (\E i \in Nodes(w) :
                     /\ w2.events[i].last_error_code # w.events[i].last_error_code
                     /\ w2.events[i].last_error_code # 0
                     /\ ~error_is_transient(w2.events[i].last_error_code))
                    => w2.state = WORKFLOW_STATE_ERROR
              /\ w.state = WORKFLOW_STATE_ERROR =>
                    /\ w2.state = WORKFLOW_STATE_ERROR
                    /\ NodeSubmissions(inserted') = NodeSubmissions(inserted)
                    /\ \A i \in Nodes(w) : w.events[i].ready = 0 => w2.events[i].ready = 0 ]_vars

\* Node n depends on node f directly.
DependsOn(w, n, f) ==
    \E j \in 1..Len(w.events[n].dependencies) : w.events[n].dependencies[j] = f

\* Node n depends on node f directly or through at most depth further nodes.
RECURSIVE DependsOnChain(_, _, _, _)
DependsOnChain(w, n, f, depth) ==
    \/ DependsOn(w, n, f)
    \/ /\ depth > 0
       /\ \E m \in Nodes(w) : DependsOn(w, n, m) /\ DependsOnChain(w, m, f, depth - 1)

\* Node f has failed with an error that is not retried.
FailedPermanently(w, f) ==
    /\ w.events[f].error = 1
    /\ w.events[f].last_error_code # 0
    /\ w.events[f].last_error_code # ERROR_WORKFLOW_DEPENDENCY_FAILED
    /\ ~error_is_transient(w.events[f].last_error_code)

\* C12: under the Skip policy, every node that has not completed and that
\* depends, directly or through a chain of dependencies, on a node that
\* failed permanently has error=1 with last_error_code
\* WorkflowDependencyFailed and has never been submitted.
C12_SkipMarksAllDependents ==
    \A id \in DOMAIN registry :
        LET w == registry[id] IN
        (w.error_policy = ERROR_POLICY_SKIP /\ w.has_context) =>
            \A f \in Nodes(w) : \A n \in Nodes(w) :
                (/\ FailedPermanently(w, f)
                 /\ DependsOnChain(w, n, f, w.event_count)
                 /\ w.events[n].completed = 0) =>
                    /\ w.events[n].error = 1
                    /\ w.events[n].last_error_code = ERROR_WORKFLOW_DEPENDENCY_FAILED
                    /\ \A k \in 1..Len(inserted) : inserted[k].node # n

\* Number of times node n was handed to the routing table.
SubmissionsOf(log, n) ==
    Len(SelectSeq(log, LAMBDA r : r.node = n))

\* The status codes with which the Execution deck can report entry e to
\* the workflow engine on the next timer tick.
PossibleCodes(e) ==
    IF NeedsDeck(e) THEN Outcomes
    ELSE IF ForExecution(e) THEN { collect_results(e).status }
    ELSE { }

\* C13: retry_count never exceeds max_retries and a node is submitted at
\* most 1 + max_retries times in an activation; a completion callback
\* submits an already submitted node again only when retry is enabled, the
\* error is transient and retry_count was below max_retries, and it never
\* submits again a node recorded as failed with a permanent error.
C13_RetryOnlyWhenEligible ==
    \A id \in DOMAIN registry :
        LET w == registry[id] IN
        w.has_context =>
          \A n \in Nodes(w) :
            /\ w.events[n].retry_count <= w.retry_config.max_retries
            /\ SubmissionsOf(inserted, n) <= 1 + w.retry_config.max_retries
            /\ \A k \in 1..Len(AllEntries(K)) :
                 LET e == AllEntries(K)[k] IN
                 e.user_id = id =>
                   \A code \in PossibleCodes(e) :
                     LET after == workflow_on_event_completed(K, id, e.event_id,
                                                              DeckResult(e), code)
                         again == /\ SubmissionsOf(inserted, n) > 0
                                  /\ SubmissionsOf(after.inserted, n) >
                                         SubmissionsOf(inserted, n)
                     IN again =>
                          /\ w.retry_config.enabled = 1
                          /\ error_is_transient(code)
                          /\ w.events[n].retry_count < w.retry_config.max_retries
                          /\ ~FailedPermanently(w, n)

\* C14: a retry is scheduled through a timer, so the completion callback
\* that reports a node's failure never itself inserts that node's event
\* into the routing table again; the event comes back only on a later step,
\* after the retry delay.
C14_RetryNotInFailureCallback ==
    \A id \in DOMAIN registry :
        registry[id].has_context =>
            \A k \in 1..Len(AllEntries(K)) :
                LET e == AllEntries(K)[k] IN
                e.user_id = id =>
                    \A code \in PossibleCodes(e) \ {0} :
                        LET after == workflow_on_event_completed(K, id, e.event_id,
                                                                 DeckResult(e), code)
                            n == FindNode(registry[id], e.event_id)
                        IN n >= 0 =>
                              SubmissionsOf(after.inserted, n) = SubmissionsOf(inserted, n)

\* C15: for every RingResult with status 0 in a result ring, the submitted
\* node of the activated workflow that carries the result's event id has
\* completed=1 and holds the pointer the RingResult carries.
C15_ResultImpliesNodeCompleted ==
    \A i \in Slots : \A k \in 1..Len(result_ring[i]) :
        LET r == result_ring[i][k] IN
        (r.status = 0 /\ r.workflow_id \in DOMAIN registry) =>
            LET w == registry[r.workflow_id] IN
            w.has_context =>
                \A n \in Nodes(w) :
                    (w.events[n].event_id = r.event_id /\ w.events[n].ready = 1) =>
                        /\ w.events[n].completed = 1
                        /\ w.events[n].result = r.result


\* C16: a notify call that fails validation (a flag bit outside the mask,
\* flags = 0, or workflow_id >= MAX_WORKFLOWS) returns a negative error code
\* and changes no state: the rings, the routing table, the event id counter,
\* every workflow, the ready queue, the current process, the time slice and
\* the tick counter are unchanged, and the process table is unchanged but for
\* the caller's last_syscall_tick, which becomes the current tick.
\* (syscall_count, a statistic no code reads, is not part of the state.)
FailsValidation(f) ==
    /\ f.int_no = SYSCALL_VECTOR
    /\ \/ f.rdi >= MAX_WORKFLOWS
       \/ f.rsi > VALID_FLAGS_MASK
       \/ f.rsi = 0

C16_ValidationFailureChangesNothing ==
    [][FailsValidation(frame') =>
        /\ frame'.rax < 0
        /\ UNCHANGED << next_pid, current_process, ready_queue, time_slice_remaining,
                        idle, event_ring, result_ring, routing_table,
                        global_event_id_counter, registry, inserted, total_ticks >>
        /\ process_table' =
             [process_table EXCEPT ![current_process].last_syscall_tick = total_ticks]
    ]_vars

\* A call with a bit outside the mask and the Submit bit was rejected while
\* the caller's ring held events, after an earlier call at another tick.
C16_Witness ==
    /\ FailsValidation(frame)
    /\ frame.rsi = VALID_FLAGS_MASK + 1 + NOTIFY_SUBMIT
    /\ frame.rax = -3
    /\ current_process # NULL
    /\ Len(event_ring[current_process]) = 2
    /\ total_ticks > 0
    /\ process_table[current_process].last_syscall_tick = total_ticks


\* The events the Submit loop is to accept for the workflow given to notify.
Accepted(ev, workflow_id) ==
    /\ ev.workflow_id = workflow_id
    /\ ev.payload_size <= MAX_EVENT_PAYLOAD_SIZE
    /\ ev.type <= MAX_EVENT_TYPE

\* The call just made was notify(Submit) with valid arguments.
SubmitCall(f) ==
    /\ f.int_no = SYSCALL_VECTOR
    /\ ~FailsValidation(f)
    /\ HasFlag(f.rsi, NOTIFY_SUBMIT)
    /\ f.rax >= 0

\* C17: notify(Submit) with argument workflow_id leaves the caller's event
\* ring empty, inserts into the routing table exactly the drained events
\* whose workflow_id equals the argument, whose payload_size is at most
\* MAX_EVENT_PAYLOAD_SIZE and whose type is at most MAX_EVENT_TYPE, in ring
\* order, and returns the number of events it inserted.
C17_SubmitInsertsExactlyValidEvents ==
    [][SubmitCall(frame') =>
        LET drained == event_ring[current_process]
            Valid(ev) == Accepted(ev, frame'.rdi)
            accepted == SelectSeq(drained, Valid)
        IN /\ event_ring'[current_process] = << >>
           /\ Len(inserted') = Len(inserted) + Len(accepted)
           /\ frame'.rax = Len(accepted)
           /\ \A k \in 1..Len(accepted) :
                \E b \in Buckets : \E j \in 1..Len(routing_table'[b]) :
                    /\ routing_table'[b][j].uid = Len(inserted) + k
                    /\ routing_table'[b][j].type = accepted[k].type
                    /\ routing_table'[b][j].user_id = frame'.rdi
    ]_vars


\* The call just made was notify(Poll) with valid arguments.
PollCall(f) ==
    /\ f.int_no = SYSCALL_VECTOR
    /\ ~FailsValidation(f)
    /\ f.rsi = NOTIFY_POLL

\* C18: notify(Poll) changes no kernel state but the caller's
\* last_syscall_tick (the current process, the ready queue, the idle flag,
\* every process state, the rings, every workflow and the routing table are
\* as before), and a second Poll of the same workflow made right after it,
\* with no timer tick in between, returns the same value.
\* (syscall_count, a statistic no code reads, is not part of the state.)
C18_PollIsSideEffectFree ==
    [][PollCall(frame') =>
        /\ UNCHANGED << next_pid, current_process, ready_queue, time_slice_remaining,
                        idle, event_ring, result_ring, routing_table,
                        global_event_id_counter, registry, inserted, total_ticks >>
        /\ process_table' =
             [process_table EXCEPT ![current_process].last_syscall_tick = total_ticks]
        /\ syscall_handler(K', frame'.rdi, NOTIFY_POLL).frame.rax = frame'.rax
        /\ [syscall_handler(K', frame'.rdi, NOTIFY_POLL) EXCEPT !.frame = NoFrame]
             = [K' EXCEPT !.frame = NoFrame]
    ]_vars

\* Polls have answered 1 for a workflow still running, with events in the
\* caller's ring and in the routing table, and 0 for a completed workflow.
C18_Witness ==
    /\ PollCall(frame)
    /\ frame.rdi = 1
    /\ total_ticks > 0
    /\ process_table[current_process].last_syscall_tick = total_ticks
    /\ \/ /\ frame.rax = 1
          /\ registry[1].state = WORKFLOW_STATE_RUNNING
          /\ event_ring[current_process] # << >>
          /\ AllEntries(K) # << >>
       \/ /\ frame.rax = 0
          /\ registry[1].state = WORKFLOW_STATE_COMPLETED


\* The state in which notify(Exit) by the current process leaves the kernel.
AfterExit == syscall_handler(K0, 1, NOTIFY_EXIT)

\* C19: when the running process P calls notify(Exit), P's slot is zeroed
\* (process_destroy), P is not the current process afterwards, P is not in
\* the ready queue, and the process that was at the head of the ready queue,
\* if there was one, is current.
C19_ExitRetiresProcess ==
    UserRunning =>
        LET P == current_process IN
        /\ AfterExit.process_table[P] = ZeroProcess
        /\ AfterExit.current_process # P
        /\ \A k \in 1..Len(AfterExit.ready_queue) : AfterExit.ready_queue[k] # P
        /\ ready_queue # << >> => AfterExit.current_process = Head(ready_queue)


\* C20: a process the watchdog has marked Zombie is never Running again and
\* never becomes the current process, at a timer tick, a yield or any
\* syscall, whether it was current or in the ready queue when it was marked.
\* (Under SpecWd no process calls notify(Exit): a Zombie slot is one the
\* watchdog marked.)
C20_WatchdogZombieNeverRuns ==
    [][\A i \in Slots :
          process_table[i].state = PROCESS_STATE_ZOMBIE =>
              /\ process_table'[i].state # PROCESS_STATE_RUNNING
              /\ current_process # i => current_process' # i
    ]_vars


\* The slots the watchdog marked at the last step.
WatchdogKills(tr) ==
    { tr[k].a : k \in { j \in 1..Len(tr) : tr[j].op = "watchdog_kill" } }

\* What the watchdog is to mark at tick count now: the processes neither
\* Waiting nor Zombie that made a syscall, the last more than
\* WATCHDOG_TIMEOUT_TICKS ticks ago.
Overdue(i, now) ==
    /\ process_table[i].state # PROCESS_STATE_WAITING
    /\ process_table[i].state # PROCESS_STATE_ZOMBIE
    /\ process_table[i].last_syscall_tick # 0
    /\ now - process_table[i].last_syscall_tick > WATCHDOG_TIMEOUT_TICKS

C22_SilentProcessIsKilled ==
    total_ticks >= WATCHDOG_TIMEOUT_TICKS + WATCHDOG_PERIOD_TICKS =>
        \A i \in Slots :
            (process_table[i].pid # 0 /\ process_table[i].last_syscall_tick = 0) =>
                /\ process_table[i].state # PROCESS_STATE_READY
                /\ process_table[i].state # PROCESS_STATE_RUNNING


\* C23: a process that is current in state Running, with another process in
\* the ready queue, and that the watchdog does not mark, keeps the CPU for at most TIME_SLICE_TICKS consecutive
\* timer ticks: the remaining slice is between 1 and TIME_SLICE_TICKS, a
\* tick that does not end it takes one tick off and leaves the process
\* current, and the tick that ends it puts the process at the tail of the
\* ready queue in state Ready, makes the process at the head current in
\* state Running and resets the slice to TIME_SLICE_TICKS.
C23_PreemptionAfterTimeSlice ==
    [][LET P == current_process IN
       ( /\ total_ticks' = total_ticks + 1
         /\ P # NULL
         /\ process_table[P].state = PROCESS_STATE_RUNNING
         /\ \E k \in 1..Len(ready_queue) : ready_queue[k] # P
         /\ P \notin WatchdogKills(trace') ) =>
            /\ time_slice_remaining \in 1..TIME_SLICE_TICKS
            /\ IF time_slice_remaining > 1
               THEN /\ current_process' = P
                    /\ time_slice_remaining' = time_slice_remaining - 1
                    /\ ready_queue' = ready_queue
               ELSE /\ ready_queue' = Append(Tail(ready_queue), P)
                    /\ process_table'[P].state = PROCESS_STATE_READY
                    /\ current_process' = Head(ready_queue)
                    /\ process_table'[Head(ready_queue)].state = PROCESS_STATE_RUNNING
                    /\ time_slice_remaining' = TIME_SLICE_TICKS
    ]_vars


\* The completion interrupt was raised during the last step.
IrqRaised(tr) == \E k \in 1..Len(tr) : tr[k].op = "completion_irq_handler"

\* How often slot i is in a ready queue.
QueueCount(queue, i) == Cardinality({ k \in 1..Len(queue) : queue[k] = i })

\* C24: after the completion interrupt handler has run no process is
\* Waiting: every process that was Waiting is in the ready queue exactly once
\* with state Ready, completion_ready is 1 on the current process, and the
\* processes that were not Waiting keep their state and their places in the
\* ready queue.  The handler runs inside a timer tick; the ticks looked at
\* are those that neither end a time slice nor run the watchdog, so that
\* the tick itself moves no process.
C24_CompletionIrqWakesAllWaiters ==
    [][( /\ IrqRaised(trace')
         /\ time_slice_remaining > 1
         /\ total_ticks' % WATCHDOG_PERIOD_TICKS # 0 ) =>
            /\ \A i \in Slots : process_table'[i].state # PROCESS_STATE_WAITING
            /\ \A i \in Slots :
                  IF process_table[i].state = PROCESS_STATE_WAITING
                  THEN /\ process_table'[i].state = PROCESS_STATE_READY
                       /\ QueueCount(ready_queue', i) = 1
                  ELSE /\ process_table'[i].state = process_table[i].state
                       /\ QueueCount(ready_queue', i) = QueueCount(ready_queue, i)
            /\ current_process' = current_process
            /\ process_table'[current_process].completion_ready = 1
    ]_vars


\* C25: when the completion interrupt, raised while another process is
\* current, moves a process blocked in notify(Wait) from Waiting to the
\* ready queue, that process's own completion_ready flag is 1.
C25_WokenWaiterHasCompletionReady ==
    [][IrqRaised(trace') =>
        \A i \in Slots :
            ( /\ in_wait[i]
              /\ process_table[i].state = PROCESS_STATE_WAITING
              /\ process_table'[i].state = PROCESS_STATE_READY
              /\ current_process # NULL
              /\ current_process # i ) =>
                process_table'[i].completion_ready = 1
    ]_vars


\* C26: each ring refines a bounded FIFO queue of capacity 256.  After any
\* sequence of push and pop calls 0 <= tail - head <= 256; a push returns 0,
\* leaving the ring as it was, exactly when tail - head = 256; a pop returns
\* NULL, leaving the ring as it was, exactly when head = tail; and the
\* record a successful pop returns is the next pushed record in push order
\* (records are numbered as pushed: the pop that moves head to n returns
\* record n), so each pushed record is returned once, in order.
C26_RingRefinesBoundedFifo ==
    [][/\ ring'.tail - ring'.head >= 0
       /\ ring'.tail - ring'.head <= RingSize(ring)
       /\ ring'.last.op = "push" =>
             /\ ring'.last.ret = 0 <=> ring.tail - ring.head = RingSize(ring)
             /\ ring'.head = ring.head
             /\ IF ring'.last.ret = 0
                THEN ring'.tail = ring.tail /\ ring'.slots = ring.slots
                ELSE ring'.tail = ring.tail + 1
       /\ ring'.last.op = "pop" =>
             /\ ring'.last.ret = 0 <=> ring.head = ring.tail
             /\ ring'.tail = ring.tail
             /\ ring'.slots = ring.slots
             /\ IF ring'.last.ret = 0
                THEN ring'.head = ring.head
                ELSE ring'.head = ring.head + 1 /\ ring'.last.value = ring'.head
    ]_vars

\* A push has been rejected on a full ring whose indices have wrapped, after
\* pops that returned the first records in order.
C26_Witness ==
    /\ ring.last = [op |-> "push", ret |-> 0, value |-> ring.tail + 1]
    /\ ring.head = MaxRingPops
    /\ ring.tail = ring.head + RingSize(ring)
    /\ ring.kind = "result"


\* C27: with one producer and one consumer on the same ring, the producer
\* never writes a slot while the consumer still reads the record a pop
\* returned from it: until the consumer has finished with the record, the
\* slot holds the value the pop returned, also when the ring was full at
\* the time of the pop.
C27_PoppedRecordIsNotOverwritten ==
    ring.held # NotHeld => ring.slots[ring.held.idx] = ring.held.value


SameWorkflowAndRoute(e1, e2) ==
    e1.user_id = e2.user_id /\ e1.prefixes = e2.prefixes

\* The entries a timer tick hands to the Execution deck, in order.
Delivered(tr) ==
    LET calls == SelectSeq(tr, LAMBDA c : c.op = "process_completed_event")
    IN [k \in 1..Len(calls) |-> calls[k].a]

\* C28: two events of the same workflow with the same route are handed to
\* each deck queue, and delivered to the Execution deck, in the order in
\* which they were submitted (uids number the entries in submission order),
\* whichever buckets their ids hash to.
C28_SubmissionOrderIsKept ==
    [][total_ticks' = total_ticks + 1 =>
         /\ LET all == AllEntries(K)
            IN \A p, q \in 1..Len(all) :
                  ( /\ p < q
                    /\ NeedsDeck(all[p]) /\ NeedsDeck(all[q])
                    /\ CurrentPrefix(all[p]) = CurrentPrefix(all[q])
                    /\ SameWorkflowAndRoute(all[p], all[q]) )
                  => all[p].uid < all[q].uid
         /\ LET d == Delivered(trace')
            IN \A p, q \in 1..Len(d) :
                  ( /\ p < q
                    /\ SameWorkflowAndRoute(EntryByUid(K, d[p]), EntryByUid(K, d[q])) )
                  => d[p] < d[q]
    ]_vars


\* The pointers a handler gave to kfree, in order.
Frees(tr) ==
    LET calls == SelectSeq(tr, LAMBDA c : c.op = "kfree")
    IN [k \in 1..Len(calls) |-> calls[k].a]

FreeCount(tr, ptr) == Cardinality({ k \in 1..Len(Frees(tr)) : Frees(tr)[k] = ptr })

\* The number of workflow nodes that hold the pointer as their result.
HolderCount(reg, ptr) ==
    LET RECURSIVE Sum(_, _)
        Sum(ids, n) ==
            IF ids = {} THEN n
            ELSE LET id == CHOOSE x \in ids : TRUE
                 IN Sum(ids \ {id},
                        n + Cardinality({ i \in Nodes(reg[id]) : reg[id].events[i].result = ptr }))
    IN Sum(DOMAIN reg, 0)

\* The deck results of the entries a handler took through the Execution deck
\* to their removal.
RemovedResults(tr) ==
    { c.b : c \in { tr[k] : k \in { j \in 1..Len(tr) :
                 /\ tr[j].op = "deck_result"
                 /\ \E r \in 1..Len(tr) : tr[r].op = "routing_table_remove" /\ tr[r].a = tr[j].a } } }

NodeResults(reg) ==
    UNION { { reg[id].events[i].result : i \in Nodes(reg[id]) } : id \in DOMAIN reg } \ { NULL }

Owned(type) == type \in { RESULT_TYPE_KMALLOC, RESULT_TYPE_MEMORY_MAPPED }

\* C29: for every routing entry that reaches the Execution deck, each deck
\* result of type Heap or MemoryMapped is released exactly once, by the
\* Execution deck or by the workflow node that took ownership of it, and no
\* result of type None, Value or Static is ever given to kfree, on every
\* path of the workflow callback.  Step by step: no handler frees a result
\* that is not Heap or MemoryMapped, and every Heap or MemoryMapped result
\* that an entry carries to its removal, or that a node holds before the
\* step, is after the step either held by exactly one node and not freed,
\* or freed exactly once and held by none.
C29_OwnedResultsReleasedOnce ==
    [][/\ \A k \in 1..Len(Frees(trace')) : Owned(ResultTypeOf(Frees(trace')[k]))
       /\ \A ptr \in RemovedResults(trace') \cup NodeResults(registry) :
             (ptr # NULL /\ Owned(ResultTypeOf(ptr))) =>
                 FreeCount(trace', ptr) + HolderCount(registry', ptr) = 1
    ]_vars


\* Positions in a trace of the calls of one kind made for entry uid.
StepsOf(tr, op, uid) == { k \in 1..Len(tr) : tr[k].op = op /\ tr[k].a = uid }

\* The last non-null result the entry carried to the Execution deck, NULL if
\* none (the addresses of one entry's results grow with the step).
LastResult(tr, uid) ==
    LET set == { tr[r].b : r \in StepsOf(tr, "deck_result", uid) } \ { NULL }
    IN IF set = {} THEN NULL ELSE CHOOSE x \in set : \A y \in set : y <= x

DeliverySteps ==
    << "wf_result_ring_push", "completion_irq_handler", "workflow_on_event_completed",
       "cleanup", "routing_table_remove" >>

RingFull ==
    /\ UserRunning
    /\ Len(result_ring[current_process]) >= RESULT_RING_SIZE

\* C31: when the target result ring is full and stays full, the Execution
\* deck's push loop ends after exactly 10,000 failed attempts, counts one
\* Execution error, leaves the result ring unchanged, and neither raises
\* the completion interrupt nor invokes the workflow callback for the event.
C31_FullRingDropsAfterMaxAttempts ==
    [][RingFull =>
          \A k \in 1..Len(trace') :
             trace'[k].op = "process_completed_event" =>
                LET uid == trace'[k].a
                    errors == StepsOf(trace', "execution_stats.errors", uid)
                IN /\ Cardinality(errors) = 1
                   /\ \A e \in errors : trace'[e].b = MAX_PUSH_ATTEMPTS
                   /\ result_ring' = result_ring
                   /\ StepsOf(trace', "wf_result_ring_push", uid) = {}
                   /\ StepsOf(trace', "completion_irq_handler", uid) = {}
                   /\ StepsOf(trace', "workflow_on_event_completed", uid) = {}
    ]_vars

\* The Execution deck has given up on an event because the ring held
\* RESULT_RING_SIZE results that the process never popped.
C31_Witness ==
    /\ RingFull
    /\ Len(result_ring[current_process]) = RESULT_RING_SIZE
    /\ \E k \in 1..Len(trace) :
          /\ trace[k].op = "execution_stats.errors"
          /\ trace[k].b = MAX_PUSH_ATTEMPTS


\* C32: every routing entry popped from the Execution queue is removed from
\* the routing table by the end of that Execution step, also when its result
\* is dropped (no current process, no result ring, or a ring that stays
\* full): no entry the Execution deck has handled is in the table afterwards.
C32_HandledEntryIsRemoved ==
    [][\A k \in 1..Len(trace') :
          trace'[k].op = "process_completed_event" =>
             \A j \in 1..Len(AllEntries(K')) : AllEntries(K')[j].uid # trace'[k].a
    ]_vars


\* The entries the Execution deck is handed when the decks have run with
\* outcomes oc, each with the state process_completed_event leaves.
Deliveries(oc) ==
    LET s1 == RunDecks(K0, oc)
        done == SelectSeq(AllEntries(s1), ForExecution)
    IN { [entry |-> done[k], after |-> process_completed_event(s1, done[k])] :
            k \in 1..Len(done) }

\* The RingResult pushed for the entry and the error code the workflow
\* callback was given, for a delivery that got as far as the push.
Pushed(d) == StepsOf(d.after.trace, "wf_result_ring_push", d.entry.uid) # {}

PushedResult(d) ==
    LET results == d.after.result_ring[current_process] IN results[Len(results)]

CallbackCodes(d) ==
    { d.after.trace[k].b :
        k \in StepsOf(d.after.trace, "workflow_on_event_completed", d.entry.uid) }

\* C33: for an entry whose abort_flag is set, the RingResult has status # 0
\* and error_code equal to the entry's error_code, and the workflow callback
\* receives that same code; for an entry whose abort_flag is clear, the
\* RingResult has status 0 and the callback receives 0.
C33_ResultCarriesErrorCode ==
    \A oc \in [SteppingUids(K) -> Outcomes] :
        \A d \in Deliveries(oc) :
            Pushed(d) =>
                IF d.entry.abort_flag = 1
                THEN /\ PushedResult(d).status # 0
                     /\ PushedResult(d).error_code = d.entry.error_code
                     /\ CallbackCodes(d) = { d.entry.error_code }
                ELSE /\ PushedResult(d).status = 0
                     /\ CallbackCodes(d) = { 0 }

\* A timer tick has delivered an aborted entry and an entry that succeeded:
\* the ring holds a result with a status and one without, and the callback
\* was given the code.
C33_Witness ==
    /\ UserRunning
    /\ \E i, j \in 1..Len(result_ring[current_process]) :
          /\ result_ring[current_process][i].status = ERROR_STORAGE_FILE_NOT_FOUND
          /\ result_ring[current_process][i].error_code = ERROR_STORAGE_FILE_NOT_FOUND
          /\ result_ring[current_process][j].status = 0
    /\ \E k \in 1..Len(trace) :
          /\ trace[k].op = "workflow_on_event_completed"
          /\ trace[k].b = ERROR_STORAGE_FILE_NOT_FOUND


\* C34: each call to workflow_activate starts every node from a clean
\* per-activation state: before any node is submitted, ready, completed and
\* error are 0, event_id is 0, the previous result is released, and
\* retry_count is 0, so that every activation has the full max_retries
\* budget for each node.
C34_ActivationResetsNodes ==
    [][\A id \in DOMAIN registry :
          registry'[id].activation_count = registry[id].activation_count + 1 =>
             LET reset == ActivateReset(K0, id) IN
             \A n \in Nodes(registry[id]) :
                /\ reset.registry[id].events[n].ready = 0
                /\ reset.registry[id].events[n].completed = 0
                /\ reset.registry[id].events[n].error = 0
                /\ reset.registry[id].events[n].event_id = 0
                /\ reset.registry[id].events[n].result = NULL
                /\ registry[id].events[n].result # NULL =>
                       FreeCount(reset.trace, registry[id].events[n].result) = 1
                /\ reset.registry[id].events[n].retry_count = 0
    ]_vars

(***************************************************************************)
(* C35: a routing entry suspended by a timer-sleep event is resumed when   *)
(* its timer expires, whatever other timer events are processed meanwhile: *)
(* as long as the entry is Suspended, an active timer points to it, since  *)
(* only the expiry of such a timer resumes the entry.                      *)
(***************************************************************************)
SuspendedEntries == SelectSeq(AllEntries(K), LAMBDA e : e.state = "SUSPENDED")

C35_SuspendedEntryKeepsItsTimer ==
    \A k \in 1..Len(SuspendedEntries) :
        \E i \in 0..(MAX_TIMERS - 1) :
            /\ timers[i].active = 1
            /\ timers[i].suspended_entry = SuspendedEntries[k].uid

(***************************************************************************)
(* C36: the ready queue is consistent: each process is in it at most once, *)
(* every process in it has state Ready (none is Waiting, Zombie or a       *)
(* zeroed slot), and its length never exceeds the maximum process count.   *)
(***************************************************************************)
C36_ReadyQueueConsistent ==
    /\ \A i \in Slots : QueueCount(ready_queue, i) <= 1
    /\ \A k \in 1..Len(ready_queue) :
          /\ process_table[ready_queue[k]].state = PROCESS_STATE_READY
          /\ process_table[ready_queue[k]].pid # 0
    /\ Len(ready_queue) <= PROCESS_MAX_COUNT

(***************************************************************************)
(* C37: no runnable process is lost: every live process that is neither    *)
(* Waiting nor Zombie is the current process with state Running or is in   *)
(* the ready queue.                                                        *)
(***************************************************************************)
Runnable(i) ==
    /\ process_table[i].pid # 0
    /\ process_table[i].state # PROCESS_STATE_WAITING
    /\ process_table[i].state # PROCESS_STATE_ZOMBIE

C37_RunnableProcessIsNotLost ==
    \A i \in Slots :
        Runnable(i) =>
            \/ current_process = i /\ process_table[i].state = PROCESS_STATE_RUNNING
            \/ QueueCount(ready_queue, i) >= 1

(***************************************************************************)
(* C38: process_create never returns a slot occupied by a live process: a  *)
(* step that creates a process (next_pid advances) leaves every live       *)
(* process in its slot with its pid, whatever its state.                   *)
(***************************************************************************)
C38_CreateTakesFreeSlot ==
    [][ next_pid' = next_pid + 1 =>
            \A i \in Slots :
                process_table[i].pid # 0 =>
                    process_table'[i].pid = process_table[i].pid
      ]_vars

(***************************************************************************)
(* C39: for an activated workflow, running_events equals the number of     *)
(* nodes with an event in flight (submitted, and not yet reported by the   *)
(* completion callback, which leaves the routing table in the same step);  *)
(* in particular it is never decremented below zero (the uint32 counter is *)
(* read in two's complement: -1 stands for 4294967295).                    *)
(***************************************************************************)
NodesInFlight(id) ==
    { AllEntries(K)[k].node :
        k \in { j \in 1..Len(AllEntries(K)) :
                  /\ AllEntries(K)[j].node # -1
                  /\ AllEntries(K)[j].user_id = id } }

C39_RunningEventsCountsInFlight ==
    \A id \in DOMAIN registry :
        registry[id].has_context =>
            /\ registry[id].context.running_events >= 0
            /\ registry[id].context.running_events = Cardinality(NodesInFlight(id))

(***************************************************************************)
(* C40: a valid notify call with several flag bits performs exactly one    *)
(* operation, that of the first set bit in the order Submit, Wait, Poll,   *)
(* Yield, Exit: it leaves the state the call with that bit alone leaves.   *)
(* A call with the Submit bit drains the caller's event ring and returns   *)
(* the number of events submitted without blocking or switching the        *)
(* caller, whatever other bits are set.                                    *)
(***************************************************************************)
FirstOperation(flags) ==
    IF HasFlag(flags, NOTIFY_SUBMIT) THEN NOTIFY_SUBMIT
    ELSE IF HasFlag(flags, NOTIFY_WAIT) THEN NOTIFY_WAIT
    ELSE IF HasFlag(flags, NOTIFY_POLL) THEN NOTIFY_POLL
    ELSE IF HasFlag(flags, NOTIFY_YIELD) THEN NOTIFY_YIELD
    ELSE NOTIFY_EXIT

\* The state a call leaves, but for the flags word kept in the frame.
Effect(s) == IF s.frame = NoFrame THEN s ELSE [s EXCEPT !.frame.rsi = 0]

C40_OneOperationByPriority ==
    UserRunning =>
        \A workflow_id \in FlWorkflowIds, flags \in FlagSets :
            LET after == syscall_handler(K0, workflow_id, flags)
                single == syscall_handler(K0, workflow_id, FirstOperation(flags))
            IN /\ Effect(after) = Effect(single)
               /\ HasFlag(flags, NOTIFY_SUBMIT) =>
                     /\ after.event_ring[current_process] = << >>
                     /\ after.frame.rax = Len(after.inserted) - Len(inserted)
                     /\ after.current_process = current_process
                     /\ after.process_table[current_process].state =
                            process_table[current_process].state
                     /\ after.ready_queue = ready_queue
                     /\ after.idle = idle

\* notify(Submit|Wait) was called with an event in the ring after a tick:
\* it returned 1 to the caller, who is still running.
C40_Witness ==
    /\ frame.rsi = NOTIFY_SUBMIT + NOTIFY_WAIT
    /\ frame.rax = 1
    /\ total_ticks > 0
    /\ current_process # NULL
    /\ process_table[current_process].state = PROCESS_STATE_RUNNING
    /\ event_ring[current_process] = << >>
    /\ process_table[current_process].last_syscall_tick = total_ticks

====
